---- MODULE Spec2Model ----
(***************************************************************************)
(* Dimba tournament engine: the result state machine (match_service.py),   *)
(* the standings recompute (standings.py), the fixture and bracket         *)
(* generators and the bracket progression (scheduler_service.py) and the   *)
(* in-process event bus (events.py), as one state machine over the rows    *)
(* of the matches and standings tables and the bus's subscriber queues.    *)
(*                                                                         *)
(* One run holds one competition of one season.  Python's None is Null     *)
(* for ids, legs and bracket positions and NoScore for scores.  A match's  *)
(* id is its index in the sequence matches (rows are added in the order    *)
(* of the db.session.add calls).                                           *)
(***************************************************************************)
EXTENDS Integers, Sequences, FiniteSets, TLC

VARIABLES
    competition,  \* the Competition row: type, season_id and its teams
    matches,      \* the matches table, match id = index
    standings,    \* the standings table, a set of rows
    subscribers,  \* EventBus._subscribers, a list of queues
    queues,       \* the content of every queue.Queue handed out by subscribe
    scope,        \* the bracket positions whose matches the callers act on
    last,         \* the last service call: its name, match, error and publishes
    now,          \* datetime.now(): the count of the clock readings so far
    seasons,      \* the seasons table, season id = index
    regionals,    \* the other Competition rows of the season, by competition id
    threads,      \* the calls in progress: each worker thread's position and locals
    lock          \* EventBus._lock: the thread that holds it, or Null

vars == <<competition, matches, standings, subscribers, queues, scope, last, now,
          seasons, regionals, threads, lock>>

\* what the calls on one competition's matches and on the bus's queues leave alone
elsewhere == <<seasons, regionals, threads, lock>>

(***************************************************************************)
(* Bounds of the exploration.                                              *)
(***************************************************************************)
MaxScore == 1            \* scores submitted are 0..MaxScore
MaxSubs == 1             \* queues that may be subscribed at once
LeagueTeams == {<<1, 2>>}                       \* team lists of a league
CupTeams == {<<1, 2>>, <<1, 2, 3>>, <<1, 2, 3, 4>>}       \* team lists of a cup
CupDrawOrders == {<<3, 1, 2>>}                  \* shuffles besides the identity
CLTeamPairs == <<<<1, 2>>, <<3, 4>>, <<5, 6>>, <<7, 8>>>>
CLScopes == {{4}, {7}}                          \* ties played in a knockout run
AllPositions == 1..7
SemiFinalPositions == {2, 3}                    \* played in a cup of four teams
CreatePairs == {<<2, 1>>}                       \* (home, away) given to create_match
MaxLeagueTeams == 5      \* teams of the largest league whose fixtures are drawn
MaxCupTeams == 8         \* teams of the largest small cup whose bracket is drawn
LargeCupTeams == 129     \* teams of a cup with more than seven rounds
CupPlayTeams == {<<1, 2>>, <<1, 2, 3>>, <<1, 2, 3, 4>>, <<1, 2, 3, 4, 5>>}  \* cups played out
PlayResults == {<<1, 0>>, <<0, 1>>, <<0, 0>>}   \* results submitted in a cup played out
OverflowQueueIds == {1, 2}                      \* queues of the clients of a bus that overflows
OverflowReaders == {2}                          \* the clients among them that read

(***************************************************************************)
(* Values of the data model.                                               *)
(***************************************************************************)
Null == 0
NoScore == -1
QueueMaxSize == 50

SCHEDULED == "SCHEDULED"
COMPLETED == "COMPLETED"
CONFIRMED == "CONFIRMED"

LEAGUE == "LEAGUE"
GROUP == "GROUP"
ROUND_1 == "ROUND_1"
ROUND_2 == "ROUND_2"
ROUND_3 == "ROUND_3"
ROUND_OF_16 == "ROUND_OF_16"
QUARTER_FINAL == "QUARTER_FINAL"
SEMI_FINAL == "SEMI_FINAL"
FINAL == "FINAL"
NoStage == "NONE"
NoGroup == "-"                \* group_name of a row outside the groups

REGIONAL == "REGIONAL"
NATIONAL == "NATIONAL"
CUP == "CUP"

\* Stages that count toward league/group standings
STANDINGS_STAGES == {LEAGUE, GROUP, NoStage}

\* The users of a run: an administrator and the coach of one team.
AdminId == 1
CoachId == 2
CoachTeam == 3
Users == {AdminId, CoachId}
UserIsCoach(user_id) == user_id = CoachId

\* Every team of a run lies in one county except team 2 (round-robin ordering).
TeamCounty(t) == IF t = 2 THEN 2 ELSE 1

\* The region of a team: teams 1..3 lie in region 1, 4..6 in region 2, ...
TeamRegion(t) == ((t - 1) \div 3) + 1

Range(s) == {s[i] : i \in DOMAIN s}

RECURSIVE SumOver(_, _)
SumOver(f, S) ==
    IF S = {} THEN 0
    ELSE LET x == CHOOSE y \in S : TRUE IN f[x] + SumOver(f, S \ {x})

\* The rows of a query in id order that satisfy P.
RECURSIVE SelectIds(_, _, _)
SelectIds(ms, P(_), i) ==
    IF i > Len(ms) THEN <<>>
    ELSE (IF P(ms[i]) THEN <<i>> ELSE <<>>) \o SelectIds(ms, P, i + 1)

(***************************************************************************)
(* Rows.                                                                   *)
(***************************************************************************)
Match(comp, home, away, stage, bp, leg, matchday, group) ==
    [ competition_id |-> comp.id, season_id |-> comp.season_id,
      home_team_id |-> home, away_team_id |-> away,
      home_score |-> NoScore, away_score |-> NoScore,
      status |-> SCHEDULED,
      submitted_by_id |-> Null, confirmed_by_id |-> Null,
      matchday |-> matchday, stage |-> stage, group_name |-> group,
      leg |-> leg, bracket_position |-> bp, penalty_winner_id |-> Null ]

Standing(team, comp, group, at) ==
    [ team_id |-> team, competition_id |-> comp.id, season_id |-> comp.season_id,
      played |-> 0, won |-> 0, drawn |-> 0, lost |-> 0,
      goals_for |-> 0, goals_against |-> 0, goal_difference |-> 0,
      points |-> 0, group_name |-> group, updated_at |-> at ]

Call(op, m, err, published) ==
    [op |-> op, match |-> m, err |-> err, published |-> published]

NoError == "ok"
ErrMatchNotFound == "Match not found"
ErrNotScheduled == "Match result can only be submitted for scheduled matches"
ErrNotOwnTeam == "You can only submit results for your own team's matches"
ErrNotCompleted == "Only completed matches can be confirmed"
ErrNoPenaltyWinner == "Knockout match ended in a draw - specify penalty_winner_id"
ErrBadPenaltyWinner == "penalty_winner_id must be one of the two teams in this match"
ErrNotRegional == "Round-robin is only for regional competitions"
ErrTooFewTeams == "Competition must have at least 2 teams"
ErrFixturesExist == "Fixtures already generated for this competition"
ErrNotCup == "Cup draw is only for cup competitions"
ErrCupExists == "Cup bracket already generated for this competition"
ErrNotNational == "Knockout bracket is only for national competitions"
ErrNotFourPairs == "Quarter-finals require exactly 4 pairings"
ErrKnockoutExists == "Knockout bracket already generated for this competition"
ErrIntegrity == "sqlalchemy.exc.IntegrityError"
ErrNot21Teams == "Champions League requires exactly 21 teams"
ErrGroupsExist == "Group fixtures already generated for this competition"
ErrNot7Regions == "Champions League requires teams from exactly 7 regions"
ErrNot3PerRegion == "Each region must contribute exactly 3 teams"
ErrSameRegion == "Group draw failed: same-region teams in one group"

(***************************************************************************)
(* generate_round_robin: the circle method, the rounds ordered by their    *)
(* count of same-county pairings (a stable descending sort), a first pass  *)
(* with the pairings as drawn and a second with home and away swapped,     *)
(* and a zeroed Standing per team.  Team indices are 0-based as in the     *)
(* source; the bye of an odd team count is Null.                           *)
(***************************************************************************)
PaddedTeams(teams) == IF Len(teams) % 2 # 0 THEN Append(teams, Null) ELSE teams

\* A variant of Rotating that never rotates.
Rotating_fixed(n, r) == [k \in 1..(n - 1) |-> k]

\* rotating after r rotations, as a 1-based sequence of 0-based team indices
Rotating(n, r) == [k \in 1..(n - 1) |-> 1 + ((k - 1 - r) % (n - 1))]

RoundPairs(n, r) ==
    LET rot == Rotating(n, r)
        half == n \div 2
    IN  <<<<0, rot[1]>>>> \o [i \in 1..(half - 1) |-> <<rot[i + 1], rot[n - i]>>]

CountyScore(teams, round_pairs) ==
    Cardinality({i \in DOMAIN round_pairs :
        LET home == teams[round_pairs[i][1] + 1]
            away == teams[round_pairs[i][2] + 1]
        IN  home # Null /\ away # Null /\ TeamCounty(home) = TeamCounty(away)})

\* rounds.sort(key=_county_score, reverse=True): stable, larger keys first
RECURSIVE InsertRound(_, _, _)
InsertRound(teams, sorted, rp) ==
    IF sorted = <<>> THEN <<rp>>
    ELSE IF CountyScore(teams, Head(sorted)) >= CountyScore(teams, rp)
         THEN <<Head(sorted)>> \o InsertRound(teams, Tail(sorted), rp)
         ELSE <<rp>> \o sorted

RECURSIVE SortRounds(_, _, _)
SortRounds(teams, rounds, i) ==
    IF i = 0 THEN <<>>
    ELSE InsertRound(teams, SortRounds(teams, rounds, i - 1), rounds[i])

RECURSIVE EmitRound(_, _, _, _, _, _)
EmitRound(comp, teams, round_pairs, matchday, swap, i) ==
    IF i > Len(round_pairs) THEN <<>>
    ELSE LET home == teams[round_pairs[i][1] + 1]
             away == teams[round_pairs[i][2] + 1]
             row == IF swap
                    THEN Match(comp, away, home, LEAGUE, Null, Null, matchday, NoGroup)
                    ELSE Match(comp, home, away, LEAGUE, Null, Null, matchday, NoGroup)
         IN  (IF home = Null \/ away = Null THEN <<>> ELSE <<row>>)
             \o EmitRound(comp, teams, round_pairs, matchday, swap, i + 1)

RECURSIVE EmitPass(_, _, _, _, _, _)
EmitPass(comp, teams, rounds, first_matchday, swap, r) ==
    IF r > Len(rounds) THEN <<>>
    ELSE EmitRound(comp, teams, rounds[r], first_matchday + r - 1, swap, 1)
         \o EmitPass(comp, teams, rounds, first_matchday, swap, r + 1)

RoundRobinMatches(comp) ==
    LET teams == PaddedTeams(comp.teams)
        n == Len(teams)
        drawn == [r \in 1..(n - 1) |-> RoundPairs(n, r - 1)]
        rounds == SortRounds(teams, drawn, Len(drawn))
    IN  EmitPass(comp, teams, rounds, 1, FALSE, 1)
        \o EmitPass(comp, teams, rounds, n, TRUE, 1)

RoundRobinStandings(comp, at) == {Standing(t, comp, NoGroup, at) : t \in Range(comp.teams)}

(***************************************************************************)
(* generate_cup_draw: bracket positions are a binary heap (1 the final,    *)
(* p feeds p div 2).  teams is the list after random.shuffle.              *)
(***************************************************************************)
RECURSIVE next_power_of_2(_)
next_power_of_2(n) == IF n <= 1 THEN 1 ELSE 2 * next_power_of_2((n + 1) \div 2)

RECURSIVE Log2(_)
Log2(n) == IF n <= 1 THEN 0 ELSE 1 + Log2(n \div 2)

bracket_pos_to_stage(bp) ==
    LET depth == Log2(bp)
    IN  CASE depth = 0 -> FINAL
          [] depth = 1 -> SEMI_FINAL
          [] depth = 2 -> QUARTER_FINAL
          [] depth = 3 -> ROUND_OF_16
          [] depth = 4 -> ROUND_3
          [] depth = 5 -> ROUND_2
          [] OTHER -> ROUND_1

\* A variant of CupDrawMatches that leaves the bye teams out of the bracket.
CupDrawMatches_byes_dropped(comp, teams) ==
    LET n == Len(teams)
        bracket_size == next_power_of_2(n)
        num_byes == bracket_size - n
        leaf_start == bracket_size \div 2
        inner == [bp \in 1..(leaf_start - 1) |->
                    Match(comp, Null, Null, bracket_pos_to_stage(bp), bp, Null, Null, NoGroup)]
        playing == [k \in 1..(leaf_start - num_byes) |->
                    Match(comp, teams[num_byes + 2 * (k - 1) + 1],
                          teams[num_byes + 2 * (k - 1) + 2],
                          ROUND_1, leaf_start + num_byes + (k - 1), Null, Null, NoGroup)]
    IN  inner \o playing

CupDrawMatches(comp, teams) ==
    LET n == Len(teams)
        bracket_size == next_power_of_2(n)
        num_byes == bracket_size - n
        leaf_start == bracket_size \div 2
        \* the bye team, if any, whose leaf feeds slot (home or away) of bp
        ByeInto(bp, is_home) ==
            LET leaf == IF is_home THEN 2 * bp ELSE 2 * bp + 1
                i == leaf - leaf_start
            IN  IF leaf >= leaf_start /\ i < num_byes THEN teams[i + 1] ELSE Null
        inner == [bp \in 1..(leaf_start - 1) |->
                    Match(comp, ByeInto(bp, TRUE), ByeInto(bp, FALSE),
                          bracket_pos_to_stage(bp), bp, Null, Null, NoGroup)]
        playing == [k \in 1..(leaf_start - num_byes) |->
                    Match(comp, teams[num_byes + 2 * (k - 1) + 1],
                          teams[num_byes + 2 * (k - 1) + 2],
                          ROUND_1, leaf_start + num_byes + (k - 1), Null, Null, NoGroup)]
    IN  inner \o playing

(***************************************************************************)
(* generate_cl_groups: the teams of each region, shuffled, are dealt to    *)
(* the groups A..G, the j-th team of the i-th region into group            *)
(* (i + 2j) mod 7; each group plays six matches.                           *)
(***************************************************************************)
group_letters == <<"A", "B", "C", "D", "E", "F", "G">>

\* region_map: the teams of each region, in the order of the team list
RegionMap(teams) ==
    [rid \in {TeamRegion(teams[k]) : k \in DOMAIN teams} |->
        SelectSeq(teams, LAMBDA t : TeamRegion(t) = rid)]

\* A variant of GroupIndex with pot offsets 0, 7 and 14.
GroupIndex_same_group(i, j) == (i + (j * 7)) % 7

\* the group (0-based) of the j-th team of the i-th region, both 0-based
GroupIndex(i, j) == (i + (j * 2)) % 7

\* groups[letter] after the deal: region_ids is the shuffled list of regions,
\* region_map the shuffled teams of each
GroupTeams(region_ids, region_map, g) ==
    LET dealt == [i \in DOMAIN region_ids |->
                    LET rt == region_map[region_ids[i]]
                        js == {j \in DOMAIN rt : GroupIndex(i - 1, j - 1) = g}
                    IN  [k \in 1..Cardinality(js) |->
                            rt[CHOOSE j \in js : Cardinality({x \in js : x <= j}) = k]]]
        Flat[i \in 0..Len(region_ids)] ==
            IF i = 0 THEN <<>> ELSE Flat[i - 1] \o dealt[i]
    IN  Flat[Len(region_ids)]

CLGroups(region_ids, region_map) ==
    [g \in DOMAIN group_letters |-> GroupTeams(region_ids, region_map, g - 1)]

GroupMatches(comp, group_teams, letter) ==
    LET a == group_teams[1]
        b == group_teams[2]
        c == group_teams[3]
    IN  << Match(comp, a, b, GROUP, Null, Null, 1, letter),
           Match(comp, c, a, GROUP, Null, Null, 2, letter),
           Match(comp, b, c, GROUP, Null, Null, 3, letter),
           Match(comp, b, a, GROUP, Null, Null, 4, letter),
           Match(comp, a, c, GROUP, Null, Null, 5, letter),
           Match(comp, c, b, GROUP, Null, Null, 6, letter) >>

CLGroupMatches(comp, groups) ==
    LET All[g \in 0..Len(groups)] ==
            IF g = 0 THEN <<>>
            ELSE All[g - 1] \o GroupMatches(comp, groups[g], group_letters[g])
    IN  All[Len(groups)]

CLGroupStandings(comp, groups, at) ==
    {Standing(groups[g][k], comp, group_letters[g], at) :
        g \in DOMAIN groups, k \in 1..3}

(***************************************************************************)
(* generate_cl_knockout_bracket: the final (single leg), the semi-finals   *)
(* at 2 and 3 and the quarter-finals at 4..7 (two legs each).              *)
(***************************************************************************)
CLKnockoutMatches(comp, team_pairs) ==
    LET final == <<Match(comp, Null, Null, FINAL, 1, Null, Null, NoGroup)>>
        semis == [k \in 1..4 |->
                    Match(comp, Null, Null, SEMI_FINAL,
                          2 + ((k - 1) \div 2), 1 + ((k - 1) % 2), Null, NoGroup)]
        quarters == [k \in 1..(2 * Len(team_pairs)) |->
                    LET i == (k - 1) \div 2
                        leg == 1 + ((k - 1) % 2)
                        team_a_id == team_pairs[i + 1][1]
                        team_b_id == team_pairs[i + 1][2]
                    IN  IF leg = 1
                        THEN Match(comp, team_a_id, team_b_id, QUARTER_FINAL, 4 + i, leg, Null, NoGroup)
                        ELSE Match(comp, team_b_id, team_a_id, QUARTER_FINAL, 4 + i, leg, Null, NoGroup)]
    IN  final \o semis \o quarters

(***************************************************************************)
(* recalculate_standings: the rows of the teams that appear in a CONFIRMED *)
(* match of a standings stage are rebuilt from those matches; a team       *)
(* without a row gets one; the other rows are left as they are.            *)
(***************************************************************************)
\* A variant of StandingsMatches that takes the matches of every stage.
StandingsMatches_any_stage(ms, competition_id, season_id) ==
    {i \in DOMAIN ms :
        /\ ms[i].competition_id = competition_id
        /\ ms[i].season_id = season_id
        /\ ms[i].status = CONFIRMED}

StandingsMatches(ms, competition_id, season_id) ==
    {i \in DOMAIN ms :
        /\ ms[i].competition_id = competition_id
        /\ ms[i].season_id = season_id
        /\ ms[i].status = CONFIRMED
        /\ ms[i].stage \in STANDINGS_STAGES}

\* A variant of TeamStats that counts only the home matches as played.
TeamStats_home_played(ms, M, t) ==
    LET H == {i \in M : ms[i].home_team_id = t}
        A == {i \in M : ms[i].away_team_id = t}
        hs == [i \in M |-> ms[i].home_score]
        as == [i \in M |-> ms[i].away_score]
        won == Cardinality({i \in H : hs[i] > as[i]}) + Cardinality({i \in A : hs[i] < as[i]})
        lost == Cardinality({i \in H : hs[i] < as[i]}) + Cardinality({i \in A : hs[i] > as[i]})
        drawn == Cardinality({i \in H : hs[i] = as[i]}) + Cardinality({i \in A : hs[i] = as[i]})
    IN  [ played |-> Cardinality(H),
          won |-> won, drawn |-> drawn, lost |-> lost,
          goals_for |-> SumOver(hs, H) + SumOver(as, A),
          goals_against |-> SumOver(as, H) + SumOver(hs, A) ]

TeamStats(ms, M, t) ==
    LET H == {i \in M : ms[i].home_team_id = t}
        A == {i \in M : ms[i].away_team_id = t}
        hs == [i \in M |-> ms[i].home_score]
        as == [i \in M |-> ms[i].away_score]
        won == Cardinality({i \in H : hs[i] > as[i]}) + Cardinality({i \in A : hs[i] < as[i]})
        lost == Cardinality({i \in H : hs[i] < as[i]}) + Cardinality({i \in A : hs[i] > as[i]})
        drawn == Cardinality({i \in H : hs[i] = as[i]}) + Cardinality({i \in A : hs[i] = as[i]})
    IN  [ played |-> Cardinality(H) + Cardinality(A),
          won |-> won, drawn |-> drawn, lost |-> lost,
          goals_for |-> SumOver(hs, H) + SumOver(as, A),
          goals_against |-> SumOver(as, H) + SumOver(hs, A) ]

\* group_name of the first match (in query order) of t that carries one
TeamGroup(ms, M, t) ==
    LET G == {i \in M : (ms[i].home_team_id = t \/ ms[i].away_team_id = t)
                        /\ ms[i].group_name # NoGroup}
    IN  IF G = {} THEN NoGroup
        ELSE ms[CHOOSE i \in G : \A j \in G : i <= j].group_name

\* A variant of recalculate_standings that adds the matches played to the
\* count the row already holds.
recalculate_standings_accumulating(ms, rows, competition_id, season_id, at) ==
    LET M == StandingsMatches(ms, competition_id, season_id)
        teams == {ms[i].home_team_id : i \in M} \cup {ms[i].away_team_id : i \in M}
        Key(r) == <<r.team_id, r.competition_id, r.season_id>>
        Rebuilt(t) ==
            LET s == TeamStats(ms, M, t)
                old == {r \in rows : Key(r) = <<t, competition_id, season_id>>}
                g == TeamGroup(ms, M, t)
                kept == IF old = {} THEN NoGroup ELSE (CHOOSE r \in old : TRUE).group_name
                before == IF old = {} THEN 0 ELSE (CHOOSE r \in old : TRUE).played
            IN  [ team_id |-> t, competition_id |-> competition_id,
                  season_id |-> season_id,
                  played |-> before + s.played, won |-> s.won, drawn |-> s.drawn,
                  lost |-> s.lost, goals_for |-> s.goals_for,
                  goals_against |-> s.goals_against,
                  goal_difference |-> s.goals_for - s.goals_against,
                  points |-> (s.won * 3) + (s.drawn * 1),
                  group_name |-> IF g # NoGroup THEN g ELSE kept,
                  updated_at |-> at ]
    IN  {r \in rows : ~(r.competition_id = competition_id /\ r.season_id = season_id
                        /\ r.team_id \in teams)}
        \cup {Rebuilt(t) : t \in teams}

recalculate_standings(ms, rows, competition_id, season_id, at) ==
    LET M == StandingsMatches(ms, competition_id, season_id)
        teams == {ms[i].home_team_id : i \in M} \cup {ms[i].away_team_id : i \in M}
        Key(r) == <<r.team_id, r.competition_id, r.season_id>>
        Rebuilt(t) ==
            LET s == TeamStats(ms, M, t)
                old == {r \in rows : Key(r) = <<t, competition_id, season_id>>}
                g == TeamGroup(ms, M, t)
                kept == IF old = {} THEN NoGroup ELSE (CHOOSE r \in old : TRUE).group_name
            IN  [ team_id |-> t, competition_id |-> competition_id,
                  season_id |-> season_id,
                  played |-> s.played, won |-> s.won, drawn |-> s.drawn,
                  lost |-> s.lost, goals_for |-> s.goals_for,
                  goals_against |-> s.goals_against,
                  goal_difference |-> s.goals_for - s.goals_against,
                  points |-> (s.won * 3) + (s.drawn * 1),
                  group_name |-> IF g # NoGroup THEN g ELSE kept,
                  updated_at |-> at ]
    IN  {r \in rows : ~(r.competition_id = competition_id /\ r.season_id = season_id
                        /\ r.team_id \in teams)}
        \cup {Rebuilt(t) : t \in teams}

(***************************************************************************)
(* EventBus.  A bus is the pair of the subscriber list and the queues'     *)
(* contents.  publish puts the message into every subscribed queue that    *)
(* is not full and removes the full ones from the list.                    *)
(***************************************************************************)
(* sort_standings: rows by points, and within a run of rows level on       *)
(* points by the head-to-head table of that run, then overall goal         *)
(* difference, then goals for.  Both sorts are stable and descending.      *)
(***************************************************************************)
\* tuple comparison of sort keys, as of Python tuples of equal length
KeyGreater(a, b) ==
    \E k \in DOMAIN a : a[k] > b[k] /\ \A j \in 1..(k - 1) : a[j] = b[j]

\* sorted(rows, key=..., reverse=True): descending, rows of equal key in the
\* order they came in.  key is a function from the rows to tuples.
RECURSIVE sorted_reverse(_, _)
sorted_reverse(rows, key) ==
    IF rows = <<>> THEN <<>>
    ELSE LET n == Len(rows)
             head == sorted_reverse(SubSeq(rows, 1, n - 1), key)
             x == rows[n]
             p == Cardinality({i \in DOMAIN head : ~KeyGreater(key[x], key[head[i]])})
         IN  SubSeq(head, 1, p) \o <<x>> \o SubSeq(head, p + 1, n - 1)

\* A variant of HeadToHead that takes every match of a tied team, whoever
\* the opponent.
HeadToHead_any_opponent(ms, M, tied_ids, t) ==
    LET s == TeamStats(ms, M, t)
    IN  [pts |-> (s.won * 3) + s.drawn, gd |-> s.goals_for - s.goals_against]

\* the row of team t in the mini-table of the matches among tied_ids
HeadToHead(ms, M, tied_ids, t) ==
    LET among == {i \in M : /\ ms[i].home_team_id \in tied_ids
                            /\ ms[i].away_team_id \in tied_ids}
        s == TeamStats(ms, among, t)
    IN  [pts |-> (s.won * 3) + s.drawn, gd |-> s.goals_for - s.goals_against]

\* one run of rows level on points, in its final order
SortTied(ms, M, tied) ==
    IF Len(tied) = 1 THEN tied
    ELSE LET tied_ids == {tied[i].team_id : i \in DOMAIN tied}
             key == [r \in Range(tied) |->
                        LET h2h == HeadToHead(ms, M, tied_ids, r.team_id)
                        IN  <<h2h.pts, h2h.gd, r.goal_difference, r.goals_for>>]
         IN  sorted_reverse(tied, key)

\* groupby(by_points, points): the runs of consecutive rows of equal points
RECURSIVE SortGroups(_, _, _)
SortGroups(ms, M, by_points) ==
    IF by_points = <<>> THEN <<>>
    ELSE LET pts == by_points[1].points
             k == CHOOSE k \in DOMAIN by_points :
                     /\ \A i \in 1..k : by_points[i].points = pts
                     /\ k = Len(by_points) \/ by_points[k + 1].points # pts
         IN  SortTied(ms, M, SubSeq(by_points, 1, k))
             \o SortGroups(ms, M, SubSeq(by_points, k + 1, Len(by_points)))

sort_standings(ms, rows, competition_id, season_id) ==
    IF Len(rows) <= 1 THEN rows
    ELSE LET M == StandingsMatches(ms, competition_id, season_id)
             by_points == sorted_reverse(rows, [r \in Range(rows) |-> <<r.points>>])
         IN  SortGroups(ms, M, by_points)

(***************************************************************************)
Event(type, data) == [type |-> type, data |-> data]

Bus(subs, qs) == [subscribers |-> subs, queues |-> qs]

\* A variant of publish that puts the message into every queue that was ever
\* handed out, whether or not it is in the list of subscribers.
publish_to_every_queue(bus, msg) ==
    LET dead == {q \in Range(bus.subscribers) : Len(bus.queues[q]) >= QueueMaxSize}
    IN  Bus(SelectSeq(bus.subscribers, LAMBDA q : q \notin dead),
            [q \in DOMAIN bus.queues |->
                IF Len(bus.queues[q]) < QueueMaxSize
                THEN Append(bus.queues[q], msg)
                ELSE bus.queues[q]])

\* A variant of publish that stops at the first full queue: the subscribers
\* after it do not get the message.
publish_stops_at_full(bus, msg) ==
    LET subs == bus.subscribers
        dead == {q \in Range(subs) : Len(bus.queues[q]) >= QueueMaxSize}
        Reached(q) == \A k \in DOMAIN subs :
                        subs[k] \in dead => \E j \in 1..k : subs[j] = q
    IN  Bus(SelectSeq(subs, LAMBDA q : q \notin dead),
            [q \in DOMAIN bus.queues |->
                IF q \in Range(subs) /\ q \notin dead /\ Reached(q)
                THEN Append(bus.queues[q], msg)
                ELSE bus.queues[q]])

publish(bus, msg) ==
    LET dead == {q \in Range(bus.subscribers) : Len(bus.queues[q]) >= QueueMaxSize}
    IN  Bus(SelectSeq(bus.subscribers, LAMBDA q : q \notin dead),
            [q \in DOMAIN bus.queues |->
                IF q \in Range(bus.subscribers) /\ q \notin dead
                THEN Append(bus.queues[q], msg)
                ELSE bus.queues[q]])

RECURSIVE PublishAll(_, _)
PublishAll(bus, msgs) ==
    IF msgs = <<>> THEN bus
    ELSE PublishAll(publish(bus, Head(msgs)), Tail(msgs))

(***************************************************************************)
(* Bracket progression: advance_bracket_winner and its helpers, each a     *)
(* function from the matches table to the matches table.                   *)
(***************************************************************************)
BracketIds(ms, competition_id, bp) ==
    SelectIds(ms, LAMBDA r : r.competition_id = competition_id
                             /\ r.bracket_position = bp, 1)

\* next((m for m in rows if m.leg == leg), None)
LegOf(ms, ids, leg) ==
    LET L == {k \in DOMAIN ids : ms[ids[k]].leg = leg}
    IN  IF L = {} THEN Null ELSE ids[CHOOSE k \in L : \A j \in L : k <= j]

fill_parent_slot(ms, competition_id, parent_bp, winner_id, is_home) ==
    LET parent_matches == BracketIds(ms, competition_id, parent_bp)
        legs == {ms[parent_matches[k]].leg : k \in DOMAIN parent_matches}
    IN  IF parent_matches = <<>> THEN ms
        ELSE IF legs = {Null} \/ Len(parent_matches) = 1
        THEN LET parent == parent_matches[1]
             IN  IF is_home
                 THEN [ms EXCEPT ![parent].home_team_id = winner_id]
                 ELSE [ms EXCEPT ![parent].away_team_id = winner_id]
        ELSE LET leg1 == LegOf(ms, parent_matches, 1)
                 leg2 == LegOf(ms, parent_matches, 2)
             IN  [i \in DOMAIN ms |->
                    IF i = leg1 /\ leg1 # Null
                    THEN IF is_home THEN [ms[i] EXCEPT !.home_team_id = winner_id]
                                    ELSE [ms[i] EXCEPT !.away_team_id = winner_id]
                    ELSE IF i = leg2 /\ leg2 # Null
                    THEN IF is_home THEN [ms[i] EXCEPT !.away_team_id = winner_id]
                                    ELSE [ms[i] EXCEPT !.home_team_id = winner_id]
                    ELSE ms[i]]

\* A variant of advance_single_leg that writes the other slot of the parent.
advance_single_leg_swapped(ms, m) ==
    LET match == ms[m]
        winner_id == IF match.home_score > match.away_score
                     THEN match.home_team_id ELSE match.away_team_id
        parent_bp == match.bracket_position \div 2
        is_home == (match.bracket_position % 2 # 0)
    IN  IF match.home_score = NoScore \/ match.away_score = NoScore THEN ms
        ELSE IF match.home_score = match.away_score
        THEN IF match.penalty_winner_id # Null
             THEN fill_parent_slot(ms, match.competition_id, parent_bp,
                                   match.penalty_winner_id, is_home)
             ELSE ms
        ELSE fill_parent_slot(ms, match.competition_id, parent_bp, winner_id, is_home)

\* A variant of advance_single_leg that advances nobody from a drawn match.
advance_single_leg_draw_stalls(ms, m) ==
    LET match == ms[m]
        winner_id == IF match.home_score > match.away_score
                     THEN match.home_team_id ELSE match.away_team_id
        parent_bp == match.bracket_position \div 2
        is_home == (match.bracket_position % 2 = 0)
    IN  IF match.home_score = NoScore \/ match.away_score = NoScore THEN ms
        ELSE IF match.home_score = match.away_score THEN ms
        ELSE fill_parent_slot(ms, match.competition_id, parent_bp, winner_id, is_home)

advance_single_leg(ms, m) ==
    LET match == ms[m]
        winner_id == IF match.home_score > match.away_score
                     THEN match.home_team_id ELSE match.away_team_id
        parent_bp == match.bracket_position \div 2
        is_home == (match.bracket_position % 2 = 0)
    IN  IF match.home_score = NoScore \/ match.away_score = NoScore THEN ms
        ELSE IF match.home_score = match.away_score
        THEN IF match.penalty_winner_id # Null
             THEN fill_parent_slot(ms, match.competition_id, parent_bp,
                                   match.penalty_winner_id, is_home)
             ELSE ms
        ELSE fill_parent_slot(ms, match.competition_id, parent_bp, winner_id, is_home)

\* score or 0
ScoreOrZero(x) == IF x = NoScore THEN 0 ELSE x

\* Variants of two_legged_winner that the properties of the tie must tell
\* from it: one reads each team's away goals from the wrong leg, one sends
\* team A through when the tie is level.
two_legged_winner_swapped_away_goals(leg1, leg2) ==
    LET team_a_id == leg1.home_team_id
        team_b_id == leg1.away_team_id
        team_a_goals == ScoreOrZero(leg1.home_score) + ScoreOrZero(leg2.away_score)
        team_b_goals == ScoreOrZero(leg1.away_score) + ScoreOrZero(leg2.home_score)
        team_a_away == ScoreOrZero(leg1.away_score)
        team_b_away == ScoreOrZero(leg2.away_score)
    IN  IF team_a_goals > team_b_goals THEN <<TRUE, team_a_id>>
        ELSE IF team_b_goals > team_a_goals THEN <<TRUE, team_b_id>>
        ELSE IF team_a_away > team_b_away THEN <<TRUE, team_a_id>>
        ELSE IF team_b_away > team_a_away THEN <<TRUE, team_b_id>>
        ELSE <<FALSE, Null>>

two_legged_winner_a_when_level(leg1, leg2) ==
    LET team_a_id == leg1.home_team_id
        team_b_id == leg1.away_team_id
        team_a_goals == ScoreOrZero(leg1.home_score) + ScoreOrZero(leg2.away_score)
        team_b_goals == ScoreOrZero(leg1.away_score) + ScoreOrZero(leg2.home_score)
        team_a_away == ScoreOrZero(leg2.away_score)
        team_b_away == ScoreOrZero(leg1.away_score)
    IN  IF team_a_goals > team_b_goals THEN <<TRUE, team_a_id>>
        ELSE IF team_b_goals > team_a_goals THEN <<TRUE, team_b_id>>
        ELSE IF team_b_away > team_a_away THEN <<TRUE, team_b_id>>
        ELSE <<TRUE, team_a_id>>

\* The winner of a tie whose legs are both confirmed, Null while undecided.
two_legged_winner(leg1, leg2) ==
    LET team_a_id == leg1.home_team_id
        team_b_id == leg1.away_team_id
        team_a_goals == ScoreOrZero(leg1.home_score) + ScoreOrZero(leg2.away_score)
        team_b_goals == ScoreOrZero(leg1.away_score) + ScoreOrZero(leg2.home_score)
        team_a_away == ScoreOrZero(leg2.away_score)
        team_b_away == ScoreOrZero(leg1.away_score)
    IN  IF team_a_goals > team_b_goals THEN <<TRUE, team_a_id>>
        ELSE IF team_b_goals > team_a_goals THEN <<TRUE, team_b_id>>
        ELSE IF team_a_away > team_b_away THEN <<TRUE, team_a_id>>
        ELSE IF team_b_away > team_a_away THEN <<TRUE, team_b_id>>
        ELSE <<FALSE, Null>>

\* A variant of advance_two_legged that does not wait for both legs.
advance_two_legged_eager(ms, m) ==
    LET match == ms[m]
        legs == BracketIds(ms, match.competition_id, match.bracket_position)
        leg1 == LegOf(ms, legs, 1)
        leg2 == LegOf(ms, legs, 2)
        parent_bp == match.bracket_position \div 2
        is_home == (match.bracket_position % 2 = 0)
    IN  IF Len(legs) < 2 THEN ms
        ELSE IF leg1 = Null \/ leg2 = Null THEN ms
        ELSE LET w == two_legged_winner(ms[leg1], ms[leg2])
             IN  IF w[1]
                 THEN fill_parent_slot(ms, match.competition_id, parent_bp, w[2], is_home)
                 ELSE ms

\* A variant of advance_two_legged that advances only from the call made for
\* the second leg.
advance_two_legged_from_leg_2(ms, m) ==
    LET match == ms[m]
        legs == BracketIds(ms, match.competition_id, match.bracket_position)
        leg1 == LegOf(ms, legs, 1)
        leg2 == LegOf(ms, legs, 2)
        parent_bp == match.bracket_position \div 2
        is_home == (match.bracket_position % 2 = 0)
    IN  IF Len(legs) < 2 THEN ms
        ELSE IF leg1 = Null \/ leg2 = Null THEN ms
        ELSE IF m # leg2 THEN ms
        ELSE IF ms[leg1].status # CONFIRMED \/ ms[leg2].status # CONFIRMED THEN ms
        ELSE LET w == two_legged_winner(ms[leg1], ms[leg2])
             IN  IF w[1]
                 THEN fill_parent_slot(ms, match.competition_id, parent_bp, w[2], is_home)
                 ELSE ms

advance_two_legged(ms, m) ==
    LET match == ms[m]
        legs == BracketIds(ms, match.competition_id, match.bracket_position)
        leg1 == LegOf(ms, legs, 1)
        leg2 == LegOf(ms, legs, 2)
        parent_bp == match.bracket_position \div 2
        is_home == (match.bracket_position % 2 = 0)
    IN  IF Len(legs) < 2 THEN ms
        ELSE IF leg1 = Null \/ leg2 = Null THEN ms
        ELSE IF ms[leg1].status # CONFIRMED \/ ms[leg2].status # CONFIRMED THEN ms
        ELSE LET w == two_legged_winner(ms[leg1], ms[leg2])
             IN  IF w[1]
                 THEN fill_parent_slot(ms, match.competition_id, parent_bp, w[2], is_home)
                 ELSE ms

advance_bracket_winner(ms, m) ==
    IF ms[m].bracket_position = Null \/ ms[m].bracket_position = 1 THEN ms
    ELSE IF ms[m].leg # Null THEN advance_two_legged(ms, m)
    ELSE advance_single_leg(ms, m)

(***************************************************************************)
(* Seasons, and the worker threads that serve the requests.  A thread at   *)
(* "idle" serves no request; a call served in steps keeps its position     *)
(* (pc), its name, its argument and its local variables in its frame.      *)
(***************************************************************************)
Season(year, is_active) == [year |-> year, is_active |-> is_active]

Threads == {1, 2}

Frame(pc, op, arg, local) == [pc |-> pc, op |-> op, arg |-> arg, local |-> local]

Idle == Frame("idle", "none", Null, <<>>)

\* one active season, no other competition, no call in progress, the lock free
InitElsewhere ==
    /\ seasons = <<Season(2025, TRUE)>>
    /\ regionals = <<>>
    /\ threads = [t \in Threads |-> Idle]
    /\ lock = Null

(***************************************************************************)
(* The state after construction: one competition with its teams, no        *)
(* fixtures, no standings, a bus without subscribers.                      *)
(***************************************************************************)
Competition(type, teams) == [id |-> 1, type |-> type, season_id |-> 1, teams |-> teams]

Competitions ==
    {Competition(REGIONAL, ts) : ts \in LeagueTeams}
    \cup {Competition(CUP, ts) : ts \in CupTeams}
    \cup {Competition(NATIONAL, <<1, 2, 3, 4, 5, 6, 7, 8>>)}

BusCompetitions == {Competition(REGIONAL, <<1, 2>>), Competition(CUP, <<1, 2>>)}

\* The bracket positions whose matches the callers act on in a run: one
\* quarter-final tie of the CL bracket, the semi-finals of a cup of four
\* (its final is seen as their parent), every match of the smaller brackets.
Scopes(c) ==
    IF c.type = NATIONAL THEN CLScopes
    ELSE IF c.type = CUP /\ Len(c.teams) > 3 THEN {SemiFinalPositions}
    ELSE {AllPositions}

QueueIds == 1..MaxSubs

Init ==
    /\ competition \in Competitions
    /\ matches = <<>>
    /\ standings = {}
    /\ subscribers = <<>>
    /\ queues = [q \in QueueIds |-> <<>>]
    /\ scope \in Scopes(competition)
    /\ last = Call("init", Null, NoError, <<>>)
    /\ now = 0
    /\ InitElsewhere

(***************************************************************************)
(* Fixture generation.                                                     *)
(***************************************************************************)
HasStage(ms, competition_id, stage) ==
    \E i \in DOMAIN ms : ms[i].competition_id = competition_id /\ ms[i].stage = stage

HasBracket(ms, competition_id) ==
    \E i \in DOMAIN ms : ms[i].competition_id = competition_id
                         /\ ms[i].bracket_position # Null

\* A team of the competition already has a Standing row of the season: the
\* INSERT of a second one breaks uq_standing_team_comp_season at the commit.
HasStanding(rows, comp) ==
    \E r \in rows : /\ r.competition_id = comp.id /\ r.season_id = comp.season_id
                    /\ r.team_id \in Range(comp.teams)

\* A variant of generate_round_robin without the look for existing LEAGUE
\* matches.
generate_round_robin_unguarded ==
    LET err == IF competition.type # REGIONAL THEN ErrNotRegional
               ELSE IF Len(competition.teams) < 2 THEN ErrTooFewTeams
               ELSE NoError
    IN  /\ last' = Call("generate_round_robin", Null, err, <<>>)
        /\ IF err = NoError
           THEN /\ matches' = matches \o RoundRobinMatches(competition)
                /\ standings' = standings \cup RoundRobinStandings(competition, now + 1)
                /\ now' = now + 1
           ELSE UNCHANGED <<matches, standings, now>>
        /\ UNCHANGED <<elsewhere, competition, subscribers, queues, scope>>

generate_round_robin ==
    LET err == IF competition.type # REGIONAL THEN ErrNotRegional
               ELSE IF Len(competition.teams) < 2 THEN ErrTooFewTeams
               ELSE IF HasStage(matches, competition.id, LEAGUE) THEN ErrFixturesExist
               ELSE IF HasStanding(standings, competition) THEN ErrIntegrity
               ELSE NoError
    IN  /\ last' = Call("generate_round_robin", Null, err, <<>>)
        /\ IF err = NoError
           THEN /\ matches' = matches \o RoundRobinMatches(competition)
                /\ standings' = standings \cup RoundRobinStandings(competition, now + 1)
                /\ now' = now + 1
           ELSE UNCHANGED <<matches, standings, now>>
        /\ UNCHANGED <<elsewhere, competition, subscribers, queues, scope>>

\* what random.shuffle(teams) may leave
ShuffleOutcomes(teams) ==
    {teams} \cup {o \in CupDrawOrders : Len(o) = Len(teams) /\ Range(o) = Range(teams)}

generate_cup_draw(shuffled) ==
    LET err == IF competition.type # CUP THEN ErrNotCup
               ELSE IF Len(competition.teams) < 2 THEN ErrTooFewTeams
               ELSE IF HasBracket(matches, competition.id) THEN ErrCupExists
               ELSE NoError
    IN  /\ last' = Call("generate_cup_draw", Null, err, <<>>)
        /\ IF err = NoError
           THEN matches' = matches \o CupDrawMatches(competition, shuffled)
           ELSE UNCHANGED matches
        /\ UNCHANGED <<elsewhere, competition, standings, subscribers, queues, scope, now>>

generate_cl_knockout_bracket(team_pairs) ==
    LET err == IF competition.type # NATIONAL THEN ErrNotNational
               ELSE IF Len(team_pairs) # 4 THEN ErrNotFourPairs
               ELSE IF HasStage(matches, competition.id, QUARTER_FINAL) THEN ErrKnockoutExists
               ELSE NoError
    IN  /\ last' = Call("generate_cl_knockout_bracket", Null, err, <<>>)
        /\ IF err = NoError
           THEN matches' = matches \o CLKnockoutMatches(competition, team_pairs)
           ELSE UNCHANGED matches
        /\ UNCHANGED <<elsewhere, competition, standings, subscribers, queues, scope, now>>

\* region_ids and region_map are what the shuffles leave
generate_cl_groups(region_ids, region_map) ==
    LET teams == competition.teams
        regions == {TeamRegion(teams[k]) : k \in DOMAIN teams}
        groups == CLGroups(region_ids, region_map)
        err == IF competition.type # NATIONAL THEN ErrNotNational
               ELSE IF Len(teams) # 21 THEN ErrNot21Teams
               ELSE IF HasStage(matches, competition.id, GROUP) THEN ErrGroupsExist
               ELSE IF Cardinality(regions) # 7 THEN ErrNot7Regions
               ELSE IF \E rid \in regions : Len(RegionMap(teams)[rid]) # 3
                    THEN ErrNot3PerRegion
               ELSE IF \E g \in DOMAIN groups :
                            \E x, y \in DOMAIN groups[g] :
                                x # y /\ TeamRegion(groups[g][x]) = TeamRegion(groups[g][y])
                    THEN ErrSameRegion
               ELSE IF HasStanding(standings, competition) THEN ErrIntegrity
               ELSE NoError
    IN  /\ last' = Call("generate_cl_groups", Null, err, <<>>)
        /\ IF err = NoError
           THEN /\ matches' = matches \o CLGroupMatches(competition, groups)
                /\ standings' = standings \cup CLGroupStandings(competition, groups, now + 1)
                /\ now' = now + 1
           ELSE UNCHANGED <<matches, standings, now>>
        /\ UNCHANGED <<elsewhere, competition, subscribers, queues, scope>>

(***************************************************************************)
(* The result state machine.                                               *)
(***************************************************************************)
\* The match ids the callers pass: one id that does not exist, and the
\* matches that are no bracket match or lie at a position in scope.
MatchIdInputs ==
    {m \in 1..(Len(matches) + 1) :
        m \in DOMAIN matches =>
            (matches[m].bracket_position = Null \/ matches[m].bracket_position \in scope)}

TeamInputs == {Null} \cup Range(competition.teams)

\* The penalty winners the callers pass for a match: none, each of its two
\* teams, and one team of the competition that does not play in it.
PenaltyWinnerInputs(match_id) ==
    IF match_id \notin DOMAIN matches THEN {Null}
    ELSE LET playing == {matches[match_id].home_team_id, matches[match_id].away_team_id}
             others == Range(competition.teams) \ playing
         IN  {Null} \cup playing
             \cup (IF others = {} THEN {} ELSE {CHOOSE t \in others : \A u \in others : t <= u})

\* A variant of submit_error without the check of the status.
submit_error_any_status(match_id, user_id) ==
    IF match_id \notin DOMAIN matches THEN ErrMatchNotFound
    ELSE IF UserIsCoach(user_id)
            /\ CoachTeam \notin {matches[match_id].home_team_id,
                                 matches[match_id].away_team_id}
         THEN ErrNotOwnTeam
    ELSE NoError

submit_error(match_id, user_id) ==
    IF match_id \notin DOMAIN matches THEN ErrMatchNotFound
    ELSE IF matches[match_id].status # SCHEDULED THEN ErrNotScheduled
    ELSE IF UserIsCoach(user_id)
            /\ CoachTeam \notin {matches[match_id].home_team_id,
                                 matches[match_id].away_team_id}
         THEN ErrNotOwnTeam
    ELSE NoError

submit_result(match_id, home_score, away_score, user_id) ==
    LET err == submit_error(match_id, user_id)
    IN  /\ last' = Call("submit_result", match_id, err, <<>>)
        /\ IF err = NoError
           THEN matches' = [matches EXCEPT ![match_id] =
                    [@ EXCEPT !.home_score = home_score,
                              !.away_score = away_score,
                              !.status = COMPLETED,
                              !.submitted_by_id = user_id]]
           ELSE UNCHANGED matches
        /\ UNCHANGED <<elsewhere, competition, standings, subscribers, queues, scope, now>>

\* a drawn single-leg bracket match needs a penalty winner
NeedsPenaltyWinner(match) ==
    LET is_knockout == match.bracket_position # Null
        is_draw == match.home_score = match.away_score
    IN  is_knockout /\ is_draw /\ match.leg = Null

\* Variants of confirm_error: one without the check of the status, one that
\* takes any team as the penalty winner.
confirm_error_any_status(match_id, penalty_winner_id) ==
    IF match_id \notin DOMAIN matches THEN ErrMatchNotFound
    ELSE IF NeedsPenaltyWinner(matches[match_id]) /\ penalty_winner_id = Null
         THEN ErrNoPenaltyWinner
    ELSE IF NeedsPenaltyWinner(matches[match_id])
            /\ penalty_winner_id \notin {matches[match_id].home_team_id,
                                         matches[match_id].away_team_id}
         THEN ErrBadPenaltyWinner
    ELSE NoError

confirm_error_any_penalty_winner(match_id, penalty_winner_id) ==
    IF match_id \notin DOMAIN matches THEN ErrMatchNotFound
    ELSE IF matches[match_id].status # COMPLETED THEN ErrNotCompleted
    ELSE IF NeedsPenaltyWinner(matches[match_id]) /\ penalty_winner_id = Null
         THEN ErrNoPenaltyWinner
    ELSE NoError

confirm_error(match_id, penalty_winner_id) ==
    IF match_id \notin DOMAIN matches THEN ErrMatchNotFound
    ELSE IF matches[match_id].status # COMPLETED THEN ErrNotCompleted
    ELSE IF NeedsPenaltyWinner(matches[match_id]) /\ penalty_winner_id = Null
         THEN ErrNoPenaltyWinner
    ELSE IF NeedsPenaltyWinner(matches[match_id])
            /\ penalty_winner_id \notin {matches[match_id].home_team_id,
                                         matches[match_id].away_team_id}
         THEN ErrBadPenaltyWinner
    ELSE NoError

\* the rows once the status change is committed
ConfirmedRows(ms, match_id, user_id, penalty_winner_id) ==
    [ms EXCEPT ![match_id] =
        [@ EXCEPT !.penalty_winner_id =
                      IF NeedsPenaltyWinner(ms[match_id]) THEN penalty_winner_id ELSE @,
                  !.status = CONFIRMED,
                  !.confirmed_by_id = user_id]]

\* A variant of Remaining that counts only the matches without a result.
Remaining_scheduled(ms, competition_id) ==
    Cardinality({i \in DOMAIN ms :
        /\ ms[i].competition_id = competition_id
        /\ ms[i].stage \in {LEAGUE, GROUP}
        /\ ms[i].status = SCHEDULED})

\* the LEAGUE/GROUP matches of the competition that are not CONFIRMED
Remaining(ms, competition_id) ==
    Cardinality({i \in DOMAIN ms :
        /\ ms[i].competition_id = competition_id
        /\ ms[i].stage \in {LEAGUE, GROUP}
        /\ ms[i].status # CONFIRMED})

\* Variants of ConfirmEvents: one publishes bracket_updated for single-leg
\* matches only, one publishes standings_updated first.
ConfirmEvents_single_leg_only(ms, match_id) ==
    LET match == ms[match_id]
    IN  << Event("match_confirmed",
                 [match_id |-> match_id, competition_id |-> match.competition_id,
                  season_id |-> match.season_id,
                  home_team_id |-> match.home_team_id,
                  away_team_id |-> match.away_team_id,
                  home_score |-> match.home_score, away_score |-> match.away_score]),
           Event("standings_updated",
                 [competition_id |-> match.competition_id, season_id |-> match.season_id]) >>
        \o (IF match.bracket_position # Null /\ match.leg = Null
            THEN <<Event("bracket_updated",
                         [competition_id |-> match.competition_id, match_id |-> match_id,
                          bracket_position |-> match.bracket_position])>>
            ELSE <<>>)
        \o (IF match.stage \in {LEAGUE, GROUP} /\ Remaining(ms, match.competition_id) = 0
            THEN <<Event("competition_complete",
                         [competition_id |-> match.competition_id,
                          season_id |-> match.season_id])>>
            ELSE <<>>)

ConfirmEvents_standings_first(ms, match_id) ==
    LET match == ms[match_id]
    IN  << Event("standings_updated",
                 [competition_id |-> match.competition_id, season_id |-> match.season_id]),
           Event("match_confirmed",
                 [match_id |-> match_id, competition_id |-> match.competition_id,
                  season_id |-> match.season_id,
                  home_team_id |-> match.home_team_id,
                  away_team_id |-> match.away_team_id,
                  home_score |-> match.home_score, away_score |-> match.away_score]) >>
        \o (IF match.bracket_position # Null
            THEN <<Event("bracket_updated",
                         [competition_id |-> match.competition_id, match_id |-> match_id,
                          bracket_position |-> match.bracket_position])>>
            ELSE <<>>)
        \o (IF match.stage \in {LEAGUE, GROUP} /\ Remaining(ms, match.competition_id) = 0
            THEN <<Event("competition_complete",
                         [competition_id |-> match.competition_id,
                          season_id |-> match.season_id])>>
            ELSE <<>>)

\* the publish calls of a confirmation, in their order; ms is the table
\* after the bracket advancement
ConfirmEvents(ms, match_id) ==
    LET match == ms[match_id]
    IN  << Event("match_confirmed",
                 [match_id |-> match_id, competition_id |-> match.competition_id,
                  season_id |-> match.season_id,
                  home_team_id |-> match.home_team_id,
                  away_team_id |-> match.away_team_id,
                  home_score |-> match.home_score, away_score |-> match.away_score]),
           Event("standings_updated",
                 [competition_id |-> match.competition_id, season_id |-> match.season_id]) >>
        \o (IF match.bracket_position # Null
            THEN <<Event("bracket_updated",
                         [competition_id |-> match.competition_id, match_id |-> match_id,
                          bracket_position |-> match.bracket_position])>>
            ELSE <<>>)
        \o (IF match.stage \in {LEAGUE, GROUP} /\ Remaining(ms, match.competition_id) = 0
            THEN <<Event("competition_complete",
                         [competition_id |-> match.competition_id,
                          season_id |-> match.season_id])>>
            ELSE <<>>)

confirm_result(match_id, user_id, penalty_winner_id) ==
    LET err == confirm_error(match_id, penalty_winner_id)
        committed == ConfirmedRows(matches, match_id, user_id, penalty_winner_id)
        advanced == IF committed[match_id].bracket_position # Null
                    THEN advance_bracket_winner(committed, match_id)
                    ELSE committed
        events == ConfirmEvents(advanced, match_id)
        bus == PublishAll(Bus(subscribers, queues), events)
    IN  IF err = NoError
        THEN /\ matches' = advanced
             /\ standings' = recalculate_standings(committed, standings,
                                 committed[match_id].competition_id,
                                 committed[match_id].season_id, now + 1)
             /\ now' = now + 1
             /\ subscribers' = bus.subscribers
             /\ queues' = bus.queues
             /\ last' = Call("confirm_result", match_id, err, events)
             /\ UNCHANGED <<elsewhere, competition, scope>>
        ELSE /\ last' = Call("confirm_result", match_id, err, <<>>)
             /\ UNCHANGED <<elsewhere, competition, matches, standings, subscribers, queues, scope, now>>

(***************************************************************************)
(* The bus's callers: the event stream of a client subscribes with a fresh  *)
(* queue, reads it message by message and, when the client goes,           *)
(* unsubscribes and ends, which leaves its queue to nobody.                *)
(***************************************************************************)
subscribe(q) ==
    /\ q \notin Range(subscribers)
    /\ queues[q] = <<>>
    /\ subscribers' = Append(subscribers, q)
    /\ UNCHANGED <<elsewhere, competition, matches, standings, queues, scope, last, now>>

unsubscribe(q) ==
    /\ q \in Range(subscribers)
    /\ subscribers' = SelectSeq(subscribers, LAMBDA s : s # q)
    /\ queues' = [queues EXCEPT ![q] = <<>>]
    /\ UNCHANGED <<elsewhere, competition, matches, standings, scope, last, now>>

get(q) ==
    /\ queues[q] # <<>>
    /\ queues' = [queues EXCEPT ![q] = Tail(@)]
    /\ UNCHANGED <<elsewhere, competition, matches, standings, subscribers, scope, last, now>>

(***************************************************************************)
(* create_match adds a match without stage, matchday or bracket position.  *)
(* A pairing is created once in a run.                                     *)
(***************************************************************************)
create_match(competition_id, season_id, home_team_id, away_team_id) ==
    /\ ~\E i \in DOMAIN matches :
            /\ matches[i].stage = NoStage
            /\ matches[i].home_team_id = home_team_id
            /\ matches[i].away_team_id = away_team_id
    /\ matches' = Append(matches,
            [Match(competition, home_team_id, away_team_id, NoStage, Null, Null, Null, NoGroup)
                EXCEPT !.competition_id = competition_id, !.season_id = season_id])
    /\ last' = Call("create_match", Len(matches) + 1, NoError, <<>>)
    /\ UNCHANGED <<elsewhere, competition, standings, subscribers, queues, scope, now>>

Scores == 0..MaxScore

\* The scores the callers pass: every pair for a call that is accepted; a
\* call that is rejected returns before it reads them, and is made with 0-0.
ScoreInputs(match_id, user_id) ==
    IF submit_error(match_id, user_id) = NoError THEN Scores ELSE {0}

\* The service calls.
NextCalls ==
    \/ generate_round_robin
    \/ \E shuffled \in ShuffleOutcomes(competition.teams) : generate_cup_draw(shuffled)
    \/ \E team_pairs \in {CLTeamPairs, Tail(CLTeamPairs)} :
            generate_cl_knockout_bracket(team_pairs)
    \/ \E match_id \in MatchIdInputs, user_id \in Users :
            \E home_score, away_score \in ScoreInputs(match_id, user_id) :
                submit_result(match_id, home_score, away_score, user_id)
    \/ \E match_id \in MatchIdInputs :
            \E penalty_winner_id \in PenaltyWinnerInputs(match_id) :
                confirm_result(match_id, AdminId, penalty_winner_id)

\* The service calls with event-stream clients connected.
NextBus ==
    \/ NextCalls
    \/ \E q \in QueueIds : subscribe(q)
    \/ \E q \in QueueIds : unsubscribe(q)
    \/ \E q \in QueueIds : get(q)

\* Runs of every competition without event-stream clients.
Spec == Init /\ [][NextCalls]_vars

\* Runs of the small competitions with event-stream clients.
InitBus == Init /\ competition \in BusCompetitions

SpecBus == InitBus /\ [][NextBus]_vars

\* The service calls with matches created one by one.
NextTable ==
    \/ NextCalls
    \/ \E pair \in CreatePairs :
            create_match(competition.id, competition.season_id, pair[1], pair[2])

TableCompetitions == {Competition(REGIONAL, <<1, 2>>), Competition(CUP, <<1, 2>>)}

InitTable == Init /\ competition \in TableCompetitions

SpecTable == InitTable /\ [][NextTable]_vars

(***************************************************************************)
(* The standings table as it is served: the rows of a competition and      *)
(* season, in the order the query returns them, sorted by sort_standings.  *)
(***************************************************************************)
\* the orders in which a query without ORDER BY can return a set of rows
QueryOrders(S) ==
    {raw \in [1..Cardinality(S) -> S] : \A i, j \in DOMAIN raw : raw[i] = raw[j] => i = j}

get_standings(competition_id, season_id) ==
    \E raw \in QueryOrders({r \in standings : /\ r.competition_id = competition_id
                                              /\ r.season_id = season_id}) :
        /\ last' = [op |-> "get_standings", match |-> Null, err |-> NoError,
                    published |-> <<>>, raw |-> raw,
                    standings |-> sort_standings(matches, raw, competition_id, season_id)]
        /\ UNCHANGED <<elsewhere, competition, matches, standings, subscribers, queues, scope, now>>

\* A league of three teams part-way through its season: each fixture is
\* still to be played, has a result awaiting confirmation, or is confirmed
\* with one of the results of SortResults.
SortTeams == <<1, 2, 3>>

SortResults ==
    { <<SCHEDULED, NoScore, NoScore>>, <<COMPLETED, 1, 0>>,
      <<CONFIRMED, 1, 0>>, <<CONFIRMED, 0, 0>>, <<CONFIRMED, 0, 1>> }

InitSort ==
    /\ competition = Competition(REGIONAL, SortTeams)
    /\ \E played \in [DOMAIN RoundRobinMatches(competition) -> SortResults] :
          LET fixtures == RoundRobinMatches(competition)
              confirmed == Cardinality({i \in DOMAIN played : played[i][1] = CONFIRMED})
          IN  /\ matches = [i \in DOMAIN fixtures |->
                    [fixtures[i] EXCEPT
                        !.status = played[i][1],
                        !.home_score = played[i][2],
                        !.away_score = played[i][3],
                        !.submitted_by_id =
                            IF played[i][1] = SCHEDULED THEN Null ELSE AdminId,
                        !.confirmed_by_id =
                            IF played[i][1] = CONFIRMED THEN AdminId ELSE Null]]
              /\ now = 1 + confirmed
              /\ standings = recalculate_standings(matches,
                                 RoundRobinStandings(competition, 1),
                                 competition.id, competition.season_id, now)
    /\ subscribers = <<>>
    /\ queues = [q \in QueueIds |-> <<>>]
    /\ scope = AllPositions
    /\ last = Call("init", Null, NoError, <<>>)
    /\ InitElsewhere

NextSort == get_standings(competition.id, competition.season_id)

SpecSort == InitSort /\ [][NextSort]_vars

(***************************************************************************)
(* The draws: leagues of 2..MaxLeagueTeams teams in every order of the     *)
(* team list, cups of 2..MaxCupTeams teams, and a Champions League of 21   *)
(* teams from 7 regions, with the generators as the only calls.            *)
(***************************************************************************)
LeagueDrawTeams ==
    UNION { {ts \in [1..n -> 1..MaxLeagueTeams] :
                \A i, j \in 1..n : ts[i] = ts[j] => i = j} : n \in 2..MaxLeagueTeams }

CupDrawTeams == {[i \in 1..n |-> i] : n \in (2..MaxCupTeams) \cup {LargeCupTeams}}

CLGroupTeams == [i \in 1..21 |-> i]

DrawCompetitions ==
    {Competition(REGIONAL, ts) : ts \in LeagueDrawTeams}
    \cup {Competition(CUP, ts) : ts \in CupDrawTeams}
    \cup {Competition(NATIONAL, CLGroupTeams)}

\* Shuffles of a list: the list itself, its rotations and their reversals.
Rotated(teams, k) == [i \in DOMAIN teams |-> teams[((i - 1 + k) % Len(teams)) + 1]]
Reversed(teams) == [i \in DOMAIN teams |-> teams[Len(teams) + 1 - i]]
DrawShuffles(teams) ==
    {Rotated(teams, k) : k \in 0..(Len(teams) - 1)}
    \cup {Reversed(Rotated(teams, k)) : k \in 0..(Len(teams) - 1)}

\* Shuffles of the region lists: the i-th region met in the team list has
\* its three teams in the (i + k)-th of their six orders.
Orders3 == << <<1, 2, 3>>, <<2, 3, 1>>, <<3, 1, 2>>, <<3, 2, 1>>, <<1, 3, 2>>, <<2, 1, 3>> >>
RegionShuffles(teams, region_ids) ==
    LET region_map == RegionMap(teams)
    IN  { [rid \in DOMAIN region_map |->
              LET rt == region_map[rid]
                  i == CHOOSE i \in DOMAIN region_ids : region_ids[i] = rid
                  o == Orders3[((i + k) % 6) + 1]
              IN  IF Len(rt) = 3 THEN [x \in 1..3 |-> rt[o[x]]] ELSE rt] : k \in 0..5 }

\* keys of region_map, in the order the team list meets the regions
RegionIds(teams) ==
    LET regions == {TeamRegion(teams[k]) : k \in DOMAIN teams}
        First(rid) == CHOOSE k \in DOMAIN teams :
                        /\ TeamRegion(teams[k]) = rid
                        /\ \A x \in 1..(k - 1) : TeamRegion(teams[x]) # rid
        Nth(n) == CHOOSE rid \in regions :
                        Cardinality({q \in regions : First(q) <= First(rid)}) = n
    IN  [n \in 1..Cardinality(regions) |-> Nth(n)]

InitDraw ==
    /\ competition \in DrawCompetitions
    /\ matches = <<>>
    /\ standings = {}
    /\ subscribers = <<>>
    /\ queues = [q \in QueueIds |-> <<>>]
    /\ scope = AllPositions
    /\ last = Call("init", Null, NoError, <<>>)
    /\ now = 0
    /\ InitElsewhere

\* The shuffles a call makes: a call that is rejected returns before it
\* shuffles anything, and is made with the lists as they are.
CupShuffleInputs ==
    IF competition.type = CUP /\ ~HasBracket(matches, competition.id)
    THEN DrawShuffles(competition.teams)
    ELSE {competition.teams}

GroupShuffleInputs ==
    IF /\ competition.type = NATIONAL
       /\ Len(competition.teams) = 21
       /\ ~HasStage(matches, competition.id, GROUP)
    THEN LET ids == RegionIds(competition.teams)
         IN  {<<region_ids, region_map>> :
                region_ids \in DrawShuffles(ids),
                region_map \in RegionShuffles(competition.teams, ids)}
    ELSE {<<<<>>, <<>>>>}

NextDraw ==
    \/ generate_round_robin
    \/ \E shuffled \in CupShuffleInputs : generate_cup_draw(shuffled)
    \/ \E shuffles \in GroupShuffleInputs : generate_cl_groups(shuffles[1], shuffles[2])

SpecDraw == InitDraw /\ [][NextDraw]_vars

(***************************************************************************)
(* A cup played out: the bracket is drawn, and the administrator submits   *)
(* the result of each match once both of its teams are known, and         *)
(* confirms it, naming one of the two as penalty winner or nobody.         *)
(***************************************************************************)
\* the bracket matches whose two team slots are filled
ReadyIds ==
    {m \in DOMAIN matches : /\ matches[m].bracket_position # Null
                            /\ matches[m].home_team_id # Null
                            /\ matches[m].away_team_id # Null}

\* a result is submitted for a match that has none
SubmitReady(m) ==
    /\ m \in ReadyIds
    /\ matches[m].status = SCHEDULED
    /\ \E r \in PlayResults : submit_result(m, r[1], r[2], AdminId)

\* a submitted result is confirmed
ConfirmReady(m) ==
    /\ m \in ReadyIds
    /\ matches[m].status = COMPLETED
    /\ \E penalty_winner_id \in {Null, matches[m].home_team_id, matches[m].away_team_id} :
            confirm_result(m, AdminId, penalty_winner_id)

\* ids of the matches of the largest bracket played out
CupMatchIds == 1..4

InitCup ==
    /\ competition \in {Competition(CUP, ts) : ts \in CupPlayTeams}
    /\ matches = <<>>
    /\ standings = {}
    /\ subscribers = <<>>
    /\ queues = [q \in QueueIds |-> <<>>]
    /\ scope = AllPositions
    /\ last = Call("init", Null, NoError, <<>>)
    /\ now = 0
    /\ InitElsewhere

NextCup ==
    \/ \E shuffled \in ShuffleOutcomes(competition.teams) : generate_cup_draw(shuffled)
    \/ \E m \in CupMatchIds : SubmitReady(m)
    \/ \E m \in CupMatchIds : ConfirmReady(m)

\* a result is submitted or confirmed, and the call is accepted
Played ==
    /\ \E m \in CupMatchIds : SubmitReady(m) \/ ConfirmReady(m)
    /\ last'.err = NoError

\* While a match waits for its result or for the confirmation of it, one
\* such call is made and accepted.
FairCup == WF_vars(Played)

SpecCup == InitCup /\ [][NextCup]_vars /\ FairCup

(***************************************************************************)
(* The bus on its own: two event-stream clients come and go, one of them   *)
(* reading and one stalled, while events are published, "overflow" when a  *)
(* subscriber's queue is full and "fill" otherwise.                        *)
(***************************************************************************)
publish_event(event_type, data) ==
    LET msg == Event(event_type, data)
        bus == publish(Bus(subscribers, queues), msg)
    IN  /\ subscribers' = bus.subscribers
        /\ queues' = bus.queues
        /\ last' = Call("publish", Null, NoError, <<msg>>)
        /\ UNCHANGED <<elsewhere, competition, matches, standings, scope, now>>

SomeQueueFull == \E q \in Range(subscribers) : Len(queues[q]) >= QueueMaxSize

EventTypeInputs == IF SomeQueueFull THEN {"overflow"} ELSE {"fill"}

InitOverflow ==
    /\ competition = Competition(REGIONAL, <<1, 2>>)
    /\ matches = <<>>
    /\ standings = {}
    /\ subscribers = <<>>
    /\ queues = [q \in OverflowQueueIds |-> <<>>]
    /\ scope = AllPositions
    /\ last = Call("init", Null, NoError, <<>>)
    /\ now = 0
    /\ InitElsewhere

NextOverflow ==
    \/ \E q \in OverflowQueueIds : subscribe(q)
    \/ \E q \in OverflowQueueIds : unsubscribe(q)
    \/ \E q \in OverflowReaders : get(q)
    \/ \E event_type \in EventTypeInputs : publish_event(event_type, <<>>)

SpecOverflow == InitOverflow /\ [][NextOverflow]_vars

(***************************************************************************)
(* The bus under threads: every method of EventBus is served in steps by   *)
(* a worker thread, which takes self._lock before it touches the list of   *)
(* subscribers and gives it back when the with block ends.  A message is   *)
(* the JSON text of the event with the time of the publish call.           *)
(***************************************************************************)
MaxPublishes == 3                \* publish calls in a run
ThreadQueueIds == {1, 2}
Backlog == QueueMaxSize - 1       \* messages a stalled client has not read

Stamped(event_type, data, at) == [type |-> event_type, data |-> data, timestamp |-> at]

\* thread t serves a subscribe or an unsubscribe of queue q
HoldsQueue(t, q) ==
    /\ threads[t].op \in {"subscribe", "unsubscribe"}
    /\ threads[t].arg = q

\* the queues no client holds: not subscribed, not about to be
FreshQueue(q) ==
    /\ q \notin Range(subscribers)
    /\ queues[q] = <<>>
    /\ \A t \in Threads : ~HoldsQueue(t, q)

\* subscribe, line 16: q = queue.Queue(maxsize=50)
call_subscribe(t, q) ==
    /\ threads[t] = Idle
    /\ FreshQueue(q)
    /\ threads' = [threads EXCEPT ![t] = Frame("acquire", "subscribe", q, <<>>)]
    /\ UNCHANGED <<competition, matches, standings, subscribers, queues, scope, last, now,
                   seasons, regionals, lock>>

\* unsubscribe is called by the client that holds the queue, once
call_unsubscribe(t, q) ==
    /\ threads[t] = Idle
    /\ q \in Range(subscribers) \/ queues[q] # <<>>
    /\ \A u \in Threads : ~HoldsQueue(u, q)
    /\ threads' = [threads EXCEPT ![t] = Frame("acquire", "unsubscribe", q, <<>>)]
    /\ UNCHANGED <<competition, matches, standings, subscribers, queues, scope, last, now,
                   seasons, regionals, lock>>

\* publish, lines 28-33: the event is built and serialized before the lock
call_publish(t, event_type, data) ==
    /\ threads[t] = Idle
    /\ now < MaxPublishes
    /\ now' = now + 1
    /\ threads' = [threads EXCEPT ![t] =
            Frame("acquire", "publish", Stamped(event_type, data, now + 1),
                  [i |-> 1, dead |-> <<>>])]
    /\ UNCHANGED <<competition, matches, standings, subscribers, queues, scope, last,
                   seasons, regionals, lock>>

BodyStart(op) ==
    IF op = "subscribe" THEN "append" ELSE IF op = "unsubscribe" THEN "filter" ELSE "loop"

\* A variant of acquire that does not wait for the lock.
acquire_unguarded(t) ==
    /\ threads[t].pc = "acquire"
    /\ lock' = t
    /\ threads' = [threads EXCEPT ![t].pc = BodyStart(threads[t].op)]
    /\ UNCHANGED <<competition, matches, standings, subscribers, queues, scope, last, now,
                   seasons, regionals>>

\* with self._lock: the thread goes on when nobody holds the lock
acquire(t) ==
    /\ threads[t].pc = "acquire"
    /\ lock = Null
    /\ lock' = t
    /\ threads' = [threads EXCEPT ![t].pc = BodyStart(threads[t].op)]
    /\ UNCHANGED <<competition, matches, standings, subscribers, queues, scope, last, now,
                   seasons, regionals>>

\* subscribe, line 18
subscribe_append(t) ==
    /\ threads[t].pc = "append"
    /\ subscribers' = Append(subscribers, threads[t].arg)
    /\ threads' = [threads EXCEPT ![t].pc = "release"]
    /\ UNCHANGED <<competition, matches, standings, queues, scope, last, now,
                   seasons, regionals, lock>>

\* unsubscribe, line 24: the list comprehension reads the list ...
unsubscribe_filter(t) ==
    /\ threads[t].pc = "filter"
    /\ threads' = [threads EXCEPT
            ![t].pc = "assign",
            ![t].local = SelectSeq(subscribers, LAMBDA s : s # threads[t].arg)]
    /\ UNCHANGED <<competition, matches, standings, subscribers, queues, scope, last, now,
                   seasons, regionals, lock>>

\* ... and the new list is assigned to self._subscribers
unsubscribe_assign(t) ==
    /\ threads[t].pc = "assign"
    /\ subscribers' = threads[t].local
    /\ threads' = [threads EXCEPT ![t].pc = "release", ![t].local = <<>>]
    /\ UNCHANGED <<competition, matches, standings, queues, scope, last, now,
                   seasons, regionals, lock>>

\* publish, lines 36-40: one turn of the loop over self._subscribers
publish_put(t) ==
    LET f == threads[t]
        i == f.local.i
    IN  /\ f.pc = "loop"
        /\ IF i > Len(subscribers)
           THEN /\ threads' = [threads EXCEPT ![t].pc = "remove"]
                /\ UNCHANGED queues
           ELSE LET q == subscribers[i]
                IN  IF Len(queues[q]) < QueueMaxSize
                    THEN /\ queues' = [queues EXCEPT ![q] = Append(@, f.arg)]
                         /\ threads' = [threads EXCEPT ![t].local.i = i + 1]
                    ELSE /\ threads' = [threads EXCEPT
                                ![t].local.i = i + 1,
                                ![t].local.dead = Append(f.local.dead, q)]
                         /\ UNCHANGED queues
        /\ UNCHANGED <<competition, matches, standings, subscribers, scope, last, now,
                       seasons, regionals, lock>>

\* publish, lines 41-42: one turn of the loop over dead
publish_remove(t) ==
    LET f == threads[t]
    IN  /\ f.pc = "remove"
        /\ IF f.local.dead = <<>>
           THEN /\ threads' = [threads EXCEPT ![t].pc = "release"]
                /\ UNCHANGED subscribers
           ELSE /\ subscribers' = SelectSeq(subscribers, LAMBDA s : s # Head(f.local.dead))
                /\ threads' = [threads EXCEPT ![t].local.dead = Tail(f.local.dead)]
        /\ UNCHANGED <<competition, matches, standings, queues, scope, last, now,
                       seasons, regionals, lock>>

\* the with block ends and the method returns; the client that has
\* unsubscribed ends and leaves its queue to nobody
release(t) ==
    /\ threads[t].pc = "release"
    /\ lock' = IF lock = t THEN Null ELSE lock
    /\ threads' = [threads EXCEPT ![t] = Idle]
    /\ queues' = IF threads[t].op = "unsubscribe"
                 THEN [queues EXCEPT ![threads[t].arg] = <<>>]
                 ELSE queues
    /\ UNCHANGED <<competition, matches, standings, subscribers, scope, last, now,
                   seasons, regionals>>

\* The bus has no subscriber, or a stalled one with a backlog of 49 messages.
InitThreads ==
    /\ competition = Competition(REGIONAL, <<1, 2>>)
    /\ matches = <<>>
    /\ standings = {}
    /\ \/ /\ subscribers = <<>>
          /\ queues = [q \in ThreadQueueIds |-> <<>>]
       \/ /\ subscribers = <<1>>
          /\ queues = [q \in ThreadQueueIds |->
                IF q = 1 THEN [k \in 1..Backlog |-> Stamped("fill", <<>>, 0)] ELSE <<>>]
    /\ scope = AllPositions
    /\ last = Call("init", Null, NoError, <<>>)
    /\ now = 0
    /\ InitElsewhere

NextThreads ==
    \/ \E t \in Threads, q \in ThreadQueueIds : call_subscribe(t, q)
    \/ \E t \in Threads, q \in ThreadQueueIds : call_unsubscribe(t, q)
    \/ \E t \in Threads : call_publish(t, "ping", <<>>)
    \/ \E t \in Threads : acquire(t)
    \/ \E t \in Threads : subscribe_append(t)
    \/ \E t \in Threads : unsubscribe_filter(t)
    \/ \E t \in Threads : unsubscribe_assign(t)
    \/ \E t \in Threads : publish_put(t)
    \/ \E t \in Threads : publish_remove(t)
    \/ \E t \in Threads : release(t)

SpecThreads == InitThreads /\ [][NextThreads]_vars

(***************************************************************************)
(* Seasons (season_service.py).  The data of a call is the loaded schema:  *)
(* a record that has the fields the request carried.                       *)
(***************************************************************************)
MaxSeasons == 3                   \* rows of the seasons table
SeasonYears == {2025, 2026}

ErrSeasonNotFound == "Season not found"

CreateSeasonInputs == {[year |-> y] : y \in SeasonYears}

UpdateSeasonInputs ==
    {[year |-> y] : y \in SeasonYears}
    \cup {[is_active |-> b] : b \in BOOLEAN}
    \cup {[year |-> y, is_active |-> b] : y \in SeasonYears, b \in BOOLEAN}

create_season(data) ==
    /\ Len(seasons) < MaxSeasons
    /\ seasons' = Append([i \in DOMAIN seasons |-> [seasons[i] EXCEPT !.is_active = FALSE]],
                         Season(data.year, TRUE))
    /\ last' = Call("create_season", Len(seasons) + 1, NoError, <<>>)
    /\ UNCHANGED <<competition, matches, standings, subscribers, queues, scope, now,
                   regionals, threads, lock>>

update_season(season_id, data) ==
    /\ IF season_id \notin DOMAIN seasons
       THEN /\ last' = Call("update_season", season_id, ErrSeasonNotFound, <<>>)
            /\ UNCHANGED seasons
       ELSE /\ seasons' = [seasons EXCEPT ![season_id] =
                    [year |-> IF "year" \in DOMAIN data THEN data.year ELSE @.year,
                     is_active |-> IF "is_active" \in DOMAIN data
                                   THEN data.is_active ELSE @.is_active]]
            /\ last' = Call("update_season", season_id, NoError, <<>>)
    /\ UNCHANGED <<competition, matches, standings, subscribers, queues, scope, now,
                   regionals, threads, lock>>

InitSeasons ==
    /\ competition = Competition(REGIONAL, <<1, 2>>)
    /\ matches = <<>>
    /\ standings = {}
    /\ subscribers = <<>>
    /\ queues = [q \in QueueIds |-> <<>>]
    /\ scope = AllPositions
    /\ last = Call("init", Null, NoError, <<>>)
    /\ now = 0
    /\ InitElsewhere

NextSeasons ==
    \/ \E data \in CreateSeasonInputs : create_season(data)
    \/ \E season_id \in 1..MaxSeasons, data \in UpdateSeasonInputs :
            update_season(season_id, data)

SpecSeasons == InitSeasons /\ [][NextSeasons]_vars

(***************************************************************************)
(* Membership and qualification (competition_service.py, routes.py,        *)
(* qualification_service.py).  competition is the Champions League of the  *)
(* season and regionals are its regional leagues; the matches and the      *)
(* standings of all of them lie in the two tables.  competition.teams is   *)
(* the association table competition_teams, whose primary key is the pair  *)
(* (competition_id, team_id).                                              *)
(***************************************************************************)
ErrCompetitionNotFound == "Competition not found"
ErrTeamNotFound == "Team not found"
ErrCLNotFound == "Champions League competition not found"
ErrTargetNotNational == "Target competition must be of type 'national'"
ErrWrongSeason == "Champions League competition does not belong to this season"
ErrNoRegionals == "No regional competitions found for this season"
ErrNotComplete == "Regional leagues not yet complete"
ErrNoStandings == "Error getting top teams: No standings found for this competition"
ErrNoGroupStandings == "Error getting top teams: No group standings found for this competition"
ErrExpected == "Expected qualified teams mismatch"

\* the rows of the teams table
AllTeams == 1..6

\* db.session.get(Competition, id): the row, or the row without id for None
NoCompetition == [id |-> Null, type |-> "NONE", season_id |-> Null, teams |-> <<>>]

CompetitionRow(id) ==
    IF id = competition.id THEN competition
    ELSE LET R == {k \in DOMAIN regionals : regionals[k].id = id}
         IN  IF R = {} THEN NoCompetition ELSE regionals[CHOOSE k \in R : TRUE]

AddResult(comp_id, team_id, err) ==
    [op |-> "add_team_to_competition", match |-> comp_id, err |-> err,
     published |-> <<>>, team_id |-> team_id]

\* competition.teams.append(team) on the dynamic relationship queues an
\* INSERT into competition_teams without reading the members; for a team
\* that is a member the commit raises IntegrityError, which nothing catches.
add_team_to_competition(comp_id, team_id) ==
    /\ IF comp_id # competition.id
       THEN /\ last' = AddResult(comp_id, team_id, ErrCompetitionNotFound)
            /\ UNCHANGED competition
       ELSE IF team_id \notin AllTeams
       THEN /\ last' = AddResult(comp_id, team_id, ErrTeamNotFound)
            /\ UNCHANGED competition
       ELSE IF team_id \in Range(competition.teams)
       THEN /\ last' = AddResult(comp_id, team_id, ErrIntegrity)
            /\ UNCHANGED competition
       ELSE /\ last' = AddResult(comp_id, team_id, NoError)
            /\ competition' = [competition EXCEPT !.teams = Append(@, team_id)]
    /\ UNCHANGED <<matches, standings, subscribers, queues, scope, now,
                   seasons, regionals, threads, lock>>

\* the loop of the batch route: the teams appended, in order
RECURSIVE BatchAdded(_, _)
BatchAdded(team_ids, existing_ids) ==
    IF team_ids = <<>> THEN <<>>
    ELSE LET team_id == Head(team_ids)
         IN  IF team_id \in existing_ids \/ team_id \notin AllTeams
             THEN BatchAdded(Tail(team_ids), existing_ids)
             ELSE <<team_id>> \o BatchAdded(Tail(team_ids), existing_ids \cup {team_id})

batch_add_teams_to_competition(comp_id, team_ids) ==
    /\ IF comp_id # competition.id
       THEN /\ last' = Call("batch_add_teams", comp_id, ErrCompetitionNotFound, <<>>)
            /\ UNCHANGED competition
       ELSE LET added == BatchAdded(team_ids, Range(competition.teams))
            IN  /\ competition' = [competition EXCEPT !.teams = @ \o added]
                /\ last' = [op |-> "batch_add_teams", match |-> comp_id, err |-> NoError,
                            published |-> <<>>, team_ids |-> team_ids,
                            added |-> Len(added)]
    /\ UNCHANGED <<matches, standings, subscribers, queues, scope, now,
                   seasons, regionals, threads, lock>>

\* get_competition_status
LeagueOrGroup(ms, competition_id) ==
    {i \in DOMAIN ms : /\ ms[i].competition_id = competition_id
                       /\ ms[i].stage \in {LEAGUE, GROUP}}

\* A variant of get_competition_status that takes a competition without
\* fixtures as complete.
get_competition_status_empty_complete(ms, competition_id) ==
    LET total == Cardinality(LeagueOrGroup(ms, competition_id))
        confirmed == Cardinality({i \in LeagueOrGroup(ms, competition_id) :
                                    ms[i].status = CONFIRMED})
    IN  [total |-> total, confirmed |-> confirmed, remaining |-> total - confirmed,
         complete |-> confirmed = total]

get_competition_status(ms, competition_id) ==
    LET total == Cardinality(LeagueOrGroup(ms, competition_id))
        confirmed == Cardinality({i \in LeagueOrGroup(ms, competition_id) :
                                    ms[i].status = CONFIRMED})
    IN  [total |-> total, confirmed |-> confirmed, remaining |-> total - confirmed,
         complete |-> total > 0 /\ confirmed = total]

\* the first count entries of a list
Top(rows, count) == SubSeq(rows, 1, IF Len(rows) < count THEN Len(rows) ELSE count)

TeamIds(rows) == [k \in DOMAIN rows |-> rows[k].team_id]

\* The Standing rows that a ranking sorts together, by group name: the rows
\* of each group for a competition with groups, else all rows under "*".
\* raw is the result of the query for the competition's Standing rows.
HasGroups(raw) == \E i \in DOMAIN raw : raw[i].group_name # NoGroup

GroupStandings(raw) == SelectSeq(raw, LAMBDA r : r.group_name # NoGroup)

\* the groups that have n rows or more, in the order of their names
GroupsWith(all_standings, n) ==
    SelectSeq(group_letters,
        LAMBDA g : Cardinality({k \in DOMAIN all_standings :
                                    all_standings[k].group_name = g}) >= n)

RankingParts(raw) ==
    IF HasGroups(raw)
    THEN [g \in Range(GroupsWith(GroupStandings(raw), 1)) |->
            SelectSeq(GroupStandings(raw), LAMBDA r : r.group_name = g)]
    ELSE [g \in {"*"} |-> raw]

\* get_top_teams; sorted_standings is sort_standings(raw, ...)
get_top_teams(raw, sorted_standings, count) ==
    IF raw = <<>> THEN [err |-> ErrNoStandings, team_ids |-> <<>>]
    ELSE [err |-> NoError, team_ids |-> TeamIds(Top(sorted_standings, count))]

\* get_top_teams_from_groups: the winners of the groups by points, goal
\* difference and goals for, then the runners-up; sorted_group is
\* sort_standings of each group's rows
get_top_teams_from_groups(raw, sorted_group, count) ==
    LET all_standings == GroupStandings(raw)
        first == GroupsWith(all_standings, 1)
        second == GroupsWith(all_standings, 2)
        winners == [k \in DOMAIN first |-> sorted_group[first[k]][1]]
        runners_up == [k \in DOMAIN second |-> sorted_group[second[k]][2]]
        placed == winners \o runners_up
        \* winners before runners-up, each by points, goal difference, goals for
        key == [r \in Range(placed) |->
                    <<IF r \in Range(winners) THEN 1 ELSE 0,
                      r.points, r.goal_difference, r.goals_for>>]
    IN  IF all_standings = <<>> THEN [err |-> ErrNoGroupStandings, team_ids |-> <<>>]
        ELSE [err |-> NoError, team_ids |-> TeamIds(Top(sorted_reverse(placed, key), count))]

\* the ranking of one regional: has_groups chooses the function
TopOfSorted(raw, sorted, count) ==
    IF HasGroups(raw)
    THEN get_top_teams_from_groups(raw, sorted, count)
    ELSE get_top_teams(raw, sorted["*"], count)

Ranking(ms, raw, competition_id, season_id, count) ==
    TopOfSorted(raw,
                [g \in DOMAIN RankingParts(raw) |->
                    sort_standings(ms, RankingParts(raw)[g], competition_id, season_id)],
                count)

\* one turn of the loop over the regionals; rest is what the turns after
\* it make: the first error of a ranking, or the qualified teams and the
\* count of incomplete regionals
TurnOutcome(status, top, rest) ==
    IF ~status.complete
    THEN [rest EXCEPT !.incomplete = @ + 1]
    ELSE IF top.err # NoError
    THEN [err |-> top.err, qualified |-> <<>>, incomplete |-> 0]
    ELSE IF rest.err # NoError THEN rest
    ELSE [rest EXCEPT !.qualified = top.team_ids \o @]

QualifyTurn(ms, reg, raw, season_id, top_n, rest) ==
    TurnOutcome(get_competition_status(ms, reg.id),
                Ranking(ms, raw, reg.id, season_id, top_n),
                rest)

QualifyLoop(ms, regs, raws, season_id, top_n) ==
    LET From[k \in 1..(Len(regs) + 1)] ==
            IF k > Len(regs) THEN [err |-> NoError, qualified |-> <<>>, incomplete |-> 0]
            ELSE QualifyTurn(ms, regs[k], raws[regs[k].id], season_id, top_n, From[k + 1])
    IN  From[1]

\* the queries for the Standing rows of every regional, each in an order
\* the database may return
RawInputs(season_id) ==
    LET ids == {regionals[k].id : k \in DOMAIN regionals}
        Rows(id) == {r \in standings : r.competition_id = id /\ r.season_id = season_id}
    IN  {raws \in [ids -> UNION {QueryOrders(Rows(id)) : id \in ids}] :
            \A id \in ids : raws[id] \in QueryOrders(Rows(id))}

QualifyResult(op, args, raws, err, qualified, added) ==
    [op |-> op, match |-> Null, err |-> err, published |-> <<>>, args |-> args,
     raw |-> raws, qualified_count |-> Len(qualified), added_to_cl |-> added,
     already_in_cl |-> Len(qualified) - added]

\* A variant of ExistingIds that finds no member.
ExistingIds_none(cl_comp) == {}

\* existing_ids = {t.id for t in cl_comp.teams}
ExistingIds(cl_comp) == Range(cl_comp.teams)

\* the checks of the call and its commit; regs are the regionals of the
\* season and loop is what the loop over them made
QualifyOutcome(args, raws, cl_comp, regs, loop) ==
    LET Failed(err) ==
            /\ last' = QualifyResult("qualify_for_champions_league", args, raws, err, <<>>, 0)
            /\ UNCHANGED competition
        existing_ids == ExistingIds(cl_comp)
        new == SelectSeq(loop.qualified, LAMBDA tid : tid \notin existing_ids)
        \* a team named twice is appended twice and inserted once
        inserted == SelectSeq([k \in DOMAIN new |->
                                  IF \E j \in 1..(k - 1) : new[j] = new[k]
                                  THEN Null ELSE new[k]],
                              LAMBDA tid : tid # Null)
    IN  IF cl_comp.id = Null THEN Failed(ErrCLNotFound)
        ELSE IF cl_comp.type # NATIONAL THEN Failed(ErrTargetNotNational)
        ELSE IF cl_comp.season_id # args[1] THEN Failed(ErrWrongSeason)
        ELSE IF regs = <<>> THEN Failed(ErrNoRegionals)
        ELSE IF loop.err # NoError THEN Failed(loop.err)
        ELSE IF loop.incomplete > 0 THEN Failed(ErrNotComplete)
        ELSE IF Len(loop.qualified) # Len(regs) * args[3] THEN Failed(ErrExpected)
        ELSE /\ competition' = [competition EXCEPT !.teams = @ \o inserted]
             /\ last' = QualifyResult("qualify_for_champions_league", args, raws,
                                      NoError, loop.qualified, Len(new))

SeasonRegionals(season_id) ==
    SelectSeq(regionals, LAMBDA c : c.season_id = season_id /\ c.type = REGIONAL)

qualify_for_champions_league(season_id, cl_competition_id, top_n, raws) ==
    /\ QualifyOutcome(<<season_id, cl_competition_id, top_n>>, raws,
                      CompetitionRow(cl_competition_id),
                      SeasonRegionals(season_id),
                      QualifyLoop(matches, SeasonRegionals(season_id), raws,
                                  season_id, top_n))
    /\ UNCHANGED <<matches, standings, subscribers, queues, scope, now,
                   seasons, regionals, threads, lock>>

\* A season with a Champions League (competition 1, no team yet or team 1
\* added by hand) and two regional leagues of two teams (competitions 2
\* and 3), each without fixtures, with its fixtures generated, with one
\* result confirmed and one awaiting confirmation, played out, or with no
\* fixture of a league but two confirmed matches without a stage (made one
\* by one with create_match), which count for the table alone.
RegionalLeague(id, teams) == [Competition(REGIONAL, teams) EXCEPT !.id = id]

QualifyRegionals == <<RegionalLeague(2, <<1, 2>>), RegionalLeague(3, <<4, 5>>)>>

\* the two fixtures of a league: status and score of each
LeagueStages ==
    { <<>>,
      << <<SCHEDULED, NoScore, NoScore>>, <<SCHEDULED, NoScore, NoScore>> >>,
      << <<CONFIRMED, 1, 0>>, <<COMPLETED, 0, 1>> >>,
      << <<CONFIRMED, 0, 0>>, <<COMPLETED, 0, 0>> >>,
      << <<CONFIRMED, 1, 0>>, <<CONFIRMED, 0, 0>> >>,
      << <<CONFIRMED, 1, 0, NoStage>>, <<CONFIRMED, 0, 0, NoStage>> >> }

Generated(stage) == stage # <<>> /\ Len(stage[1]) = 3

AtStage(fixtures, stage) ==
    [i \in DOMAIN stage |->
        [fixtures[i] EXCEPT
            !.status = stage[i][1], !.home_score = stage[i][2], !.away_score = stage[i][3],
            !.stage = IF Len(stage[i]) = 3 THEN @ ELSE stage[i][4],
            !.submitted_by_id = IF stage[i][1] = SCHEDULED THEN Null ELSE AdminId,
            !.confirmed_by_id = IF stage[i][1] = CONFIRMED THEN AdminId ELSE Null]]

InitQualify ==
    /\ competition \in {Competition(NATIONAL, <<>>), Competition(NATIONAL, <<1>>)}
    /\ regionals = QualifyRegionals
    /\ \E s2, s3 \in LeagueStages :
          LET m2 == AtStage(RoundRobinMatches(regionals[1]), s2)
              m3 == AtStage(RoundRobinMatches(regionals[2]), s3)
              r2 == IF Generated(s2) THEN RoundRobinStandings(regionals[1], 1) ELSE {}
              r3 == IF Generated(s3) THEN RoundRobinStandings(regionals[2], 1) ELSE {}
          IN  /\ matches = m2 \o m3
              /\ now = 2
              /\ standings =
                    recalculate_standings(matches,
                        recalculate_standings(matches, r2 \cup r3, 2, 1, now), 3, 1, now)
    /\ subscribers = <<>>
    /\ queues = [q \in QueueIds |-> <<>>]
    /\ scope = AllPositions
    /\ last = Call("init", Null, NoError, <<>>)
    /\ seasons = <<Season(2025, TRUE)>>
    /\ threads = [t \in Threads |-> Idle]
    /\ lock = Null

\* the calls: confirmations of the results that await one, qualification
\* (season_id, cl_competition_id, top_n) with top_n 1 and 2 and with a
\* season without leagues, a league as target and a target that does not
\* exist, and teams added by hand one by one and in a batch
QualifyInputs == {<<1, 1, 1>>, <<1, 1, 2>>, <<2, 1, 1>>, <<1, 2, 1>>, <<1, 9, 1>>}

AddTeamInputs == {<<1, 1>>, <<1, 4>>, <<1, 9>>, <<9, 1>>}

BatchInputs == {<<1, <<1, 4, 1>>>>, <<9, <<1>>>>}

NextQualify ==
    \/ \E match_id \in {m \in DOMAIN matches : matches[m].status = COMPLETED} :
            confirm_result(match_id, AdminId, Null)
    \/ \E arg \in QualifyInputs :
            \E raws \in RawInputs(arg[1]) :
                qualify_for_champions_league(arg[1], arg[2], arg[3], raws)
    \/ \E arg \in AddTeamInputs : add_team_to_competition(arg[1], arg[2])
    \/ \E arg \in BatchInputs : batch_add_teams_to_competition(arg[1], arg[2])

SpecQualify == InitQualify /\ [][NextQualify]_vars

(***************************************************************************)
(* reset_bracket_route: DELETE /competitions/{id}/bracket deletes all      *)
(* bracket matches of a competition, unless one of them is confirmed.  No  *)
(* event is published.  The rows that stay keep their place in matches: in *)
(* these runs a match without bracket position is made before the draw.    *)
(***************************************************************************)
ErrNotFound == "404 Not Found"
ErrNoBracket == "No bracket to reset"
ErrResetConfirmed == "Cannot reset - match(es) already confirmed"

BracketMatches(ms, comp_id) ==
    {i \in DOMAIN ms : ms[i].competition_id = comp_id /\ ms[i].bracket_position # Null}

ResetResult(comp_id, err, deleted) ==
    [op |-> "reset_bracket", match |-> comp_id, err |-> err, published |-> <<>>,
     deleted |-> deleted]

\* A variant of reset_bracket that does not look for confirmed matches.
reset_bracket_unguarded(comp_id) ==
    LET bracket_matches == BracketMatches(matches, comp_id)
    IN  /\ IF comp_id # competition.id
           THEN /\ last' = ResetResult(comp_id, ErrNotFound, 0)
                /\ UNCHANGED matches
           ELSE IF bracket_matches = {}
           THEN /\ last' = ResetResult(comp_id, ErrNoBracket, 0)
                /\ UNCHANGED matches
           ELSE /\ matches' = SelectSeq(matches, LAMBDA m :
                                  ~(m.competition_id = comp_id /\ m.bracket_position # Null))
                /\ last' = ResetResult(comp_id, NoError, Cardinality(bracket_matches))
        /\ UNCHANGED <<elsewhere, competition, standings, subscribers, queues, scope, now>>

reset_bracket(comp_id) ==
    LET bracket_matches == BracketMatches(matches, comp_id)
        confirmed == {i \in bracket_matches : matches[i].status = CONFIRMED}
    IN  /\ IF comp_id # competition.id
           THEN /\ last' = ResetResult(comp_id, ErrNotFound, 0)
                /\ UNCHANGED matches
           ELSE IF bracket_matches = {}
           THEN /\ last' = ResetResult(comp_id, ErrNoBracket, 0)
                /\ UNCHANGED matches
           ELSE IF confirmed # {}
           THEN /\ last' = ResetResult(comp_id, ErrResetConfirmed, 0)
                /\ UNCHANGED matches
           ELSE /\ matches' = SelectSeq(matches, LAMBDA m :
                                  ~(m.competition_id = comp_id /\ m.bracket_position # Null))
                /\ last' = ResetResult(comp_id, NoError, Cardinality(bracket_matches))
        /\ UNCHANGED <<elsewhere, competition, standings, subscribers, queues, scope, now>>

\* cups of two to four teams; competition 9 does not exist
ResetCupTeams == {<<1, 2>>, <<1, 2, 3>>, <<1, 2, 3, 4>>}

ResetInputs == {1, 9}

InitReset ==
    /\ competition \in {Competition(CUP, ts) : ts \in ResetCupTeams}
    /\ matches = <<>>
    /\ standings = {}
    /\ subscribers = <<>>
    /\ queues = [q \in QueueIds |-> <<>>]
    /\ scope = AllPositions
    /\ last = Call("init", Null, NoError, <<>>)
    /\ now = 0
    /\ InitElsewhere

NextReset ==
    \/ /\ matches = <<>>
       /\ \E pair \in CreatePairs :
            create_match(competition.id, competition.season_id, pair[1], pair[2])
    \/ \E shuffled \in ShuffleOutcomes(competition.teams) : generate_cup_draw(shuffled)
    \/ \E m \in CupMatchIds : SubmitReady(m)
    \/ \E m \in CupMatchIds : ConfirmReady(m)
    \/ \E comp_id \in ResetInputs : reset_bracket(comp_id)

SpecReset == InitReset /\ [][NextReset]_vars

(***************************************************************************)
(* confirm_result step by step, served by two worker threads with a        *)
(* session each.  matches and standings are what is committed (READ        *)
(* COMMITTED: every query reads it afresh); what a thread has read, and    *)
(* the rows it holds to write, are in its frame.  The steps are the        *)
(* commit of the status (match_service.py 55-76), the query of             *)
(* recalculate_standings for the confirmed matches (standings.py 86-92),   *)
(* the loading of the Standing rows and the assignments (136-163), the     *)
(* commit (165), the two publish calls (match_service.py 81-94), the       *)
(* filling of the parent slot with its commit (98), the publish of         *)
(* bracket_updated (99) and the rest up to the return (105-120).           *)
(***************************************************************************)
ConfirmLocal(ms, loaded, computed, published) ==
    [ms |-> ms, loaded |-> loaded, computed |-> computed, published |-> published]

ConfirmFrame(pc, match_id, local) == Frame(pc, "confirm_result", match_id, local)

At(t, pc) == threads[t].op = "confirm_result" /\ threads[t].pc = pc

Goto(t, pc, local) ==
    threads' = [threads EXCEPT ![t] = ConfirmFrame(pc, threads[t].arg, local)]

\* lines 55-76: the checks, the new status and its commit
confirm_commit(t, match_id, penalty_winner_id) ==
    LET err == confirm_error(match_id, penalty_winner_id)
    IN  /\ threads[t] = Idle
        /\ IF err = NoError
           THEN /\ matches' = ConfirmedRows(matches, match_id, AdminId, penalty_winner_id)
                /\ threads' = [threads EXCEPT ![t] =
                        ConfirmFrame("recalculate_query", match_id,
                                     ConfirmLocal(<<>>, {}, {}, <<>>))]
                /\ UNCHANGED last
           ELSE /\ last' = Call("confirm_result", match_id, err, <<>>)
                /\ UNCHANGED <<matches, threads>>
        /\ UNCHANGED <<competition, standings, subscribers, queues, scope, now,
                       seasons, regionals, lock>>

\* standings.py 86-92: the confirmed matches as they are now
recalculate_query(t) ==
    /\ At(t, "recalculate_query")
    /\ Goto(t, "recalculate_rows", [threads[t].local EXCEPT !.ms = matches])
    /\ UNCHANGED <<competition, matches, standings, subscribers, queues, scope, now,
                   last, seasons, regionals, lock>>

\* standings.py 94-163: the statistics of the matches read, the Standing row
\* of each team loaded or made, and the values assigned to it
recalculate_rows(t) ==
    LET match == matches[threads[t].arg]
        ms == threads[t].local.ms
        M == StandingsMatches(ms, match.competition_id, match.season_id)
        teams == {ms[i].home_team_id : i \in M} \cup {ms[i].away_team_id : i \in M}
        loaded == {r \in standings : /\ r.competition_id = match.competition_id
                                     /\ r.season_id = match.season_id
                                     /\ r.team_id \in teams}
        computed == recalculate_standings(ms, loaded, match.competition_id,
                                          match.season_id, now + 1)
    IN  /\ At(t, "recalculate_rows")
        /\ Goto(t, "recalculate_commit",
                [threads[t].local EXCEPT !.loaded = loaded, !.computed = computed])
        /\ now' = now + 1
        /\ UNCHANGED <<competition, matches, standings, subscribers, queues, scope,
                       last, seasons, regionals, lock>>

\* what an UPDATE leaves of a row: the columns whose assigned value differs
\* from the loaded one are written, the others stay as committed
Updated(current, loaded, assigned) ==
    [f \in DOMAIN assigned |-> IF assigned[f] # loaded[f] THEN assigned[f] ELSE current[f]]

SameRow(r, n) ==
    /\ r.team_id = n.team_id
    /\ r.competition_id = n.competition_id
    /\ r.season_id = n.season_id

\* the table after the commit of the rows a thread holds
Written(rows, local) ==
    LET Row(S, n) == CHOOSE r \in S : SameRow(r, n)
        Has(S, n) == \E r \in S : SameRow(r, n)
    IN  {r \in rows : ~Has(local.computed, r)}
        \cup {n \in local.computed : ~Has(local.loaded, n)}
        \cup {Updated(Row(rows, n), Row(local.loaded, n), n) :
                n \in {x \in local.computed : Has(local.loaded, x) /\ Has(rows, x)}}

\* standings.py 165: the commit; the INSERT of a row that another session
\* has inserted meanwhile violates uq_standing_team_comp_season, and the
\* exception ends the request
recalculate_commit(t) ==
    LET local == threads[t].local
        inserts == {n \in local.computed : ~\E o \in local.loaded : SameRow(o, n)}
    IN  /\ At(t, "recalculate_commit")
        /\ IF \E n \in inserts : \E c \in standings : SameRow(c, n)
           THEN /\ last' = Call("confirm_result", threads[t].arg, ErrIntegrity, <<>>)
                /\ threads' = [threads EXCEPT ![t] = Idle]
                /\ UNCHANGED standings
           ELSE /\ standings' = Written(standings, local)
                /\ Goto(t, "publish_confirmed", local)
                /\ UNCHANGED last
        /\ UNCHANGED <<competition, matches, subscribers, queues, scope, now,
                       seasons, regionals, lock>>

\* the events of the named types among those of a confirmation
EventsOf(match_id, types) ==
    SelectSeq(ConfirmEvents(matches, match_id), LAMBDA e : e.type \in types)

PublishStep(t, types, pc) ==
    LET events == EventsOf(threads[t].arg, types)
        bus == PublishAll(Bus(subscribers, queues), events)
        published == threads[t].local.published \o events
    IN  /\ subscribers' = bus.subscribers
        /\ queues' = bus.queues
        /\ IF pc = "idle"
           THEN /\ threads' = [threads EXCEPT ![t] = Idle]
                /\ last' = Call("confirm_result", threads[t].arg, NoError, published)
           ELSE /\ Goto(t, pc, [threads[t].local EXCEPT !.published = published])
                /\ UNCHANGED last
        /\ UNCHANGED <<competition, matches, standings, scope, now, seasons, regionals, lock>>

\* match_service.py 81-94
publish_confirmed(t) ==
    /\ At(t, "publish_confirmed")
    /\ PublishStep(t, {"match_confirmed", "standings_updated"},
                   IF matches[threads[t].arg].bracket_position # Null
                   THEN "advance" ELSE "complete")

\* match_service.py 98: advance_bracket_winner, with the commit of the
\* parent's slot in _fill_parent_slot
advance_commit(t) ==
    /\ At(t, "advance")
    /\ matches' = advance_bracket_winner(matches, threads[t].arg)
    /\ Goto(t, "publish_bracket", threads[t].local)
    /\ UNCHANGED <<competition, standings, subscribers, queues, scope, now, last,
                   seasons, regionals, lock>>

\* match_service.py 99-103
publish_bracket(t) ==
    /\ At(t, "publish_bracket")
    /\ PublishStep(t, {"bracket_updated"}, "complete")

\* match_service.py 105-120: competition_complete when no league or group
\* match is left, and the return
publish_complete(t) ==
    /\ At(t, "complete")
    /\ PublishStep(t, {"competition_complete"}, "idle")

\* The matches of a competition with a result submitted for each of them
\* that has its two teams.
Submitted(ms, result) ==
    [i \in DOMAIN ms |->
        IF ms[i].home_team_id # Null /\ ms[i].away_team_id # Null
        THEN [ms[i] EXCEPT !.home_score = result[1], !.away_score = result[2],
                           !.status = COMPLETED, !.submitted_by_id = AdminId]
        ELSE ms[i]]

\* the two matches that create_match makes of teams 1 and 2
HandMade(comp) ==
    << Match(comp, 1, 2, NoStage, Null, Null, Null, NoGroup),
       Match(comp, 2, 1, NoStage, Null, Null, Null, NoGroup) >>

\* A league of two teams with its fixtures and its zeroed table, two teams
\* with two matches made by hand and no table yet, and a cup of four teams
\* with its bracket: every match that has its teams has its result.
ConfirmWorlds ==
    { <<Competition(REGIONAL, <<1, 2>>),
        RoundRobinMatches(Competition(REGIONAL, <<1, 2>>)),
        RoundRobinStandings(Competition(REGIONAL, <<1, 2>>), 0)>>,
      <<Competition(REGIONAL, <<1, 2>>), HandMade(Competition(REGIONAL, <<1, 2>>)), {}>>,
      <<Competition(CUP, <<1, 2, 3, 4>>),
        CupDrawMatches(Competition(CUP, <<1, 2, 3, 4>>), <<1, 2, 3, 4>>), {}>> }

InitConfirm ==
    /\ \E world \in ConfirmWorlds, result \in PlayResults :
          /\ competition = world[1]
          /\ matches = Submitted(world[2], result)
          /\ standings = world[3]
    /\ subscribers = <<1>>
    /\ queues = [q \in QueueIds |-> <<>>]
    /\ scope = AllPositions
    /\ last = Call("init", Null, NoError, <<>>)
    /\ now = 0
    /\ InitElsewhere

NextConfirm ==
    \/ \E t \in Threads, match_id \in CupMatchIds :
            \E penalty_winner_id \in PenaltyWinnerInputs(match_id) :
                confirm_commit(t, match_id, penalty_winner_id)
    \/ \E t \in Threads : recalculate_query(t)
    \/ \E t \in Threads : recalculate_rows(t)
    \/ \E t \in Threads : recalculate_commit(t)
    \/ \E t \in Threads : publish_confirmed(t)
    \/ \E t \in Threads : advance_commit(t)
    \/ \E t \in Threads : publish_bracket(t)
    \/ \E t \in Threads : publish_complete(t)

SpecConfirm == InitConfirm /\ [][NextConfirm]_vars

(***************************************************************************)
(* Vocabulary of the properties.                                           *)
(***************************************************************************)
ConfirmedOk(m) == last.op = "confirm_result" /\ last.err = NoError /\ last.match = m

\* the rows at the parent position of bracket position p
ParentRows(ms, p) ==
    {i \in DOMAIN ms : ms[i].competition_id = competition.id
                       /\ ms[i].bracket_position = p \div 2}

\* the slot of parent row i that position p feeds: home for an even p and
\* away for an odd p; the second leg of a two-legged parent holds it on the
\* opposite side
FedSlot(ms, i, p) ==
    IF (p % 2 = 0) = (ms[i].leg # 2) THEN ms[i].home_team_id ELSE ms[i].away_team_id

ParentHolds(ms, p, team) == \A i \in ParentRows(ms, p) : FedSlot(ms, i, p) = team

\* the positions above the root that hold a two-legged tie, and their legs
TiePositions(ms) ==
    {p \in AllPositions \ {1} :
        \E i, j \in DOMAIN ms : /\ ms[i].bracket_position = p /\ ms[i].leg = 1
                                /\ ms[j].bracket_position = p /\ ms[j].leg = 2}

TieLeg(ms, p, leg) ==
    ms[CHOOSE i \in DOMAIN ms : ms[i].bracket_position = p /\ ms[i].leg = leg]

BothConfirmed(ms, p) ==
    TieLeg(ms, p, 1).status = CONFIRMED /\ TieLeg(ms, p, 2).status = CONFIRMED

\* aggregate and away goals of the team at home in leg 1 (A) and of the other (B)
AggregateA(ms, p) == TieLeg(ms, p, 1).home_score + TieLeg(ms, p, 2).away_score
AggregateB(ms, p) == TieLeg(ms, p, 1).away_score + TieLeg(ms, p, 2).home_score
AwayGoalsA(ms, p) == TieLeg(ms, p, 2).away_score
AwayGoalsB(ms, p) == TieLeg(ms, p, 1).away_score

TieLevel(ms, p) ==
    AggregateA(ms, p) = AggregateB(ms, p) /\ AwayGoalsA(ms, p) = AwayGoalsB(ms, p)

EventTypes(msgs) == [k \in DOMAIN msgs |-> msgs[k].type]

SingleLegWinner(match) ==
    IF match.home_score > match.away_score THEN match.home_team_id
    ELSE IF match.away_score > match.home_score THEN match.away_team_id
    ELSE match.penalty_winner_id

\* the step is submit_result / confirm_result called on match m
SubmitCalled(m) ==
    /\ last'.op = "submit_result" /\ last'.match = m
    /\ \E home_score, away_score \in Scores, user_id \in Users :
            submit_result(m, home_score, away_score, user_id)

ConfirmCalled(m, penalty_winner_id) ==
    /\ last'.op = "confirm_result" /\ last'.match = m
    /\ confirm_result(m, AdminId, penalty_winner_id)

(***************************************************************************)
(* C1  A match's status changes only from SCHEDULED to COMPLETED, by a     *)
(* successful submit_result on it, or from COMPLETED to CONFIRMED, by a    *)
(* successful confirm_result on it; a CONFIRMED match keeps its status.    *)
(***************************************************************************)
C1_StatusTransitions ==
    [][\A m \in DOMAIN matches :
          /\ m \in DOMAIN matches'
          /\ matches'[m].status # matches[m].status =>
                /\ last'.match = m /\ last'.err = NoError
                /\ \/ /\ matches[m].status = SCHEDULED
                      /\ matches'[m].status = COMPLETED
                      /\ last'.op = "submit_result"
                   \/ /\ matches[m].status = COMPLETED
                      /\ matches'[m].status = CONFIRMED
                      /\ last'.op = "confirm_result"]_vars

C1_Witness ==
    \E m \in DOMAIN matches :
        /\ ConfirmedOk(m)
        /\ matches[m].status = CONFIRMED
        /\ matches[m].submitted_by_id # Null

(***************************************************************************)
(* C2  submit_result on a match that is not SCHEDULED and confirm_result   *)
(* on a match that is not COMPLETED return an error and leave the match,   *)
(* every Standing row and every subscriber's buffer as they were.          *)
(***************************************************************************)
C2_RejectedCallsChangeNothing ==
    [][\A m \in DOMAIN matches :
          (\/ matches[m].status # SCHEDULED /\ SubmitCalled(m)
           \/ matches[m].status # COMPLETED
              /\ \E penalty_winner_id \in TeamInputs : ConfirmCalled(m, penalty_winner_id))
          => /\ last'.err # NoError
             /\ matches'[m] = matches[m]
             /\ UNCHANGED <<standings, subscribers, queues>>]_vars

C2_Witness ==
    /\ last.op = "confirm_result" /\ last.err = ErrNotCompleted
    /\ matches[last.match].status = CONFIRMED
    /\ standings # {}
    /\ \E q \in Range(subscribers) : queues[q] # <<>>

(***************************************************************************)
(* C3  confirm_result on a COMPLETED single-leg bracket match with equal   *)
(* scores fails when penalty_winner_id is missing or is not one of the two *)
(* participants: the match stays COMPLETED, no row is written and no event *)
(* is published.  With a participant it succeeds and records that id.      *)
(***************************************************************************)
C3_PenaltyWinnerRequired ==
    [][\A m \in DOMAIN matches, penalty_winner_id \in TeamInputs :
          (/\ matches[m].status = COMPLETED
           /\ matches[m].bracket_position # Null
           /\ matches[m].leg = Null
           /\ matches[m].home_score = matches[m].away_score
           /\ ConfirmCalled(m, penalty_winner_id))
          => IF penalty_winner_id # Null
                /\ penalty_winner_id \in {matches[m].home_team_id, matches[m].away_team_id}
             THEN /\ last'.err = NoError
                  /\ matches'[m].status = CONFIRMED
                  /\ matches'[m].penalty_winner_id = penalty_winner_id
             ELSE /\ last'.err # NoError
                  /\ last'.published = <<>>
                  /\ UNCHANGED <<matches, standings, subscribers, queues>>]_vars

C3_Witness ==
    \E a, b \in DOMAIN matches :
        /\ matches[a].status = CONFIRMED
        /\ matches[a].home_score = matches[a].away_score
        /\ matches[a].penalty_winner_id \in {matches[a].home_team_id, matches[a].away_team_id}
        /\ matches[a].penalty_winner_id # Null
        /\ last = Call("confirm_result", b, ErrBadPenaltyWinner, <<>>)
        /\ matches[b].status = COMPLETED

(***************************************************************************)
(* C4  After a successful confirm_result of a single-leg bracket match at  *)
(* position p > 1 the rows at position p div 2 hold the winner (the higher *)
(* scorer, the penalty winner on equal scores) in the home slot when p is  *)
(* even and in the away slot when p is odd; of a two-legged parent, leg 1  *)
(* holds it on that side and leg 2 on the other.                           *)
(***************************************************************************)
C4_SingleLegWinnerAdvances ==
    [][\A m \in DOMAIN matches, penalty_winner_id \in TeamInputs :
          (/\ matches[m].status = COMPLETED
           /\ matches[m].leg = Null
           /\ matches[m].bracket_position > 1
           /\ ConfirmCalled(m, penalty_winner_id)
           /\ last'.err = NoError)
          => ParentHolds(matches', matches[m].bracket_position,
                         SingleLegWinner(matches'[m]))]_vars

C4_Witness ==
    \E m \in DOMAIN matches :
        /\ ConfirmedOk(m)
        /\ matches[m].leg = Null
        /\ matches[m].bracket_position > 1
        /\ matches[m].bracket_position % 2 = 1
        /\ matches[m].home_score = matches[m].away_score
        /\ ParentRows(matches, matches[m].bracket_position) # {}
        /\ ParentHolds(matches, matches[m].bracket_position, matches[m].penalty_winner_id)

(***************************************************************************)
(* C5  For a two-legged tie at position p no team is written into the      *)
(* parent's slot while fewer than both legs are CONFIRMED, whichever leg   *)
(* is confirmed first: the slot is written only by the confirmation of a   *)
(* leg of the tie that makes both legs CONFIRMED.                          *)
(***************************************************************************)
C5_ParentWrittenOnlyByLastLeg ==
    [][\A p \in TiePositions(matches) :
          (\E i \in ParentRows(matches, p) : FedSlot(matches', i, p) # FedSlot(matches, i, p))
          => /\ ~BothConfirmed(matches, p)
             /\ BothConfirmed(matches', p)
             /\ last'.op = "confirm_result" /\ last'.err = NoError
             /\ matches[last'.match].bracket_position = p]_vars

C5_Witness ==
    \E p \in TiePositions(matches) :
        /\ TieLeg(matches, p, 2).status = CONFIRMED
        /\ TieLeg(matches, p, 1).status = COMPLETED
        /\ TieLeg(matches, p, 1).home_score > TieLeg(matches, p, 1).away_score
        /\ ParentRows(matches, p) # {}
        /\ ParentHolds(matches, p, Null)

C7_LevelTieLeavesParentNull ==
    \A p \in TiePositions(matches) :
        BothConfirmed(matches, p) /\ TieLevel(matches, p) => ParentHolds(matches, p, Null)

C7_Witness ==
    \E p \in TiePositions(matches) :
        /\ BothConfirmed(matches, p)
        /\ TieLevel(matches, p)
        /\ TieLeg(matches, p, 1).away_score > 0
        /\ ParentRows(matches, p) # {}
        /\ ParentHolds(matches, p, Null)

(***************************************************************************)
(* C8  As claimed: the confirmation that leaves a two-legged tie level on  *)
(* aggregate and on away goals publishes no bracket_updated event.         *)
(***************************************************************************)
C8_NoBracketUpdatedForLevelTie ==
    \A p \in TiePositions(matches) :
        (/\ BothConfirmed(matches, p) /\ TieLevel(matches, p)
         /\ last.op = "confirm_result" /\ last.err = NoError
         /\ matches[last.match].bracket_position = p)
        => "bracket_updated" \notin Range(EventTypes(last.published))

(***************************************************************************)
(* C8, as the code has it: the confirmation that leaves a two-legged tie   *)
(* level on aggregate and on away goals publishes one bracket_updated      *)
(* event, for the confirmed leg and its position, as the confirmation of   *)
(* any bracket match does, and the parent's slot stays null.               *)
(***************************************************************************)
C8_LevelTieStillPublishesBracketUpdated ==
    \A p \in TiePositions(matches) :
        (/\ BothConfirmed(matches, p) /\ TieLevel(matches, p)
         /\ last.op = "confirm_result" /\ last.err = NoError
         /\ matches[last.match].bracket_position = p)
        => /\ Cardinality({k \in DOMAIN last.published :
                              last.published[k].type = "bracket_updated"}) = 1
           /\ \A k \in DOMAIN last.published :
                 last.published[k].type = "bracket_updated"
                 => last.published[k].data =
                        [competition_id |-> competition.id, match_id |-> last.match,
                         bracket_position |-> p]
           /\ ParentHolds(matches, p, Null)

C8_Witness ==
    \E p \in TiePositions(matches) :
        /\ BothConfirmed(matches, p)
        /\ TieLevel(matches, p)
        /\ ConfirmedOk(last.match)
        /\ matches[last.match].bracket_position = p
        /\ EventTypes(last.published)
              = <<"match_confirmed", "standings_updated", "bracket_updated">>

(***************************************************************************)
(* C9  A subscriber registered throughout a successful confirm_result      *)
(* receives its events in the order match_confirmed, standings_updated,    *)
(* then bracket_updated, then competition_complete; bracket_updated only   *)
(* for a match with a bracket position, competition_complete only when the *)
(* match was the last LEAGUE/GROUP match that was not CONFIRMED.           *)
(***************************************************************************)
C9_EventOrder ==
    [][\A m \in DOMAIN matches, q \in Range(subscribers) :
          (/\ matches[m].status = COMPLETED
           /\ q \in Range(subscribers')
           /\ \E penalty_winner_id \in TeamInputs : ConfirmCalled(m, penalty_winner_id)
           /\ last'.err = NoError)
          => \E bracket \in {<<>>, <<"bracket_updated">>},
                complete \in {<<>>, <<"competition_complete">>} :
                /\ Len(queues'[q]) >= Len(queues[q])
                /\ SubSeq(queues'[q], 1, Len(queues[q])) = queues[q]
                /\ EventTypes(SubSeq(queues'[q], Len(queues[q]) + 1, Len(queues'[q])))
                      = <<"match_confirmed", "standings_updated">> \o bracket \o complete
                /\ bracket # <<>> => matches[m].bracket_position # Null
                /\ complete # <<>> =>
                      /\ matches[m].stage \in {LEAGUE, GROUP}
                      /\ \A i \in DOMAIN matches :
                            i # m /\ matches[i].stage \in {LEAGUE, GROUP}
                            => matches[i].status = CONFIRMED]_vars

C9_Witness ==
    \E q \in Range(subscribers) :
        /\ last.op = "confirm_result" /\ last.err = NoError
        /\ matches[last.match].bracket_position # Null
        /\ EventTypes(queues[q])
              = <<"match_confirmed", "standings_updated", "bracket_updated">>

(***************************************************************************)
(* C10  A confirmation publishes competition_complete exactly when the     *)
(* confirmed match has stage LEAGUE or GROUP and after it no LEAGUE or     *)
(* GROUP match of the competition is left that is not CONFIRMED: on the    *)
(* last such confirmation and on no earlier one.                           *)
(***************************************************************************)
C10_CompetitionCompleteExactlyOnLast ==
    last.op = "confirm_result" /\ last.err = NoError =>
        ("competition_complete" \in Range(EventTypes(last.published))
         <=> /\ matches[last.match].stage \in {LEAGUE, GROUP}
             /\ \A i \in DOMAIN matches :
                   matches[i].competition_id = matches[last.match].competition_id
                   /\ matches[i].stage \in {LEAGUE, GROUP}
                   => matches[i].status = CONFIRMED)

C10_Witness ==
    /\ last.op = "confirm_result" /\ last.err = NoError
    /\ EventTypes(last.published)
          = <<"match_confirmed", "standings_updated", "competition_complete">>
    /\ \E i \in DOMAIN matches : i # last.match /\ matches[i].status = CONFIRMED

(***************************************************************************)
(* C11  After a successful confirm_result every Standing row of the        *)
(* match's competition and season holds the aggregate (played, won, drawn, *)
(* lost, goals for and against, goal difference, points 3/1/0) over the    *)
(* CONFIRMED matches of that competition and season with stage LEAGUE,     *)
(* GROUP or none in which the team took part, and over no other match.     *)
(***************************************************************************)
Counted(competition_id, season_id, team_id) ==
    {i \in DOMAIN matches :
        /\ matches[i].competition_id = competition_id
        /\ matches[i].season_id = season_id
        /\ matches[i].status = CONFIRMED
        /\ matches[i].stage \in {LEAGUE, GROUP, NoStage}
        /\ team_id \in {matches[i].home_team_id, matches[i].away_team_id}}

GoalsFor(i, team_id) ==
    IF matches[i].home_team_id = team_id THEN matches[i].home_score
    ELSE matches[i].away_score

GoalsAgainst(i, team_id) ==
    IF matches[i].home_team_id = team_id THEN matches[i].away_score
    ELSE matches[i].home_score

RowIsAggregate(r) ==
    LET M == Counted(r.competition_id, r.season_id, r.team_id)
        gf == [i \in M |-> GoalsFor(i, r.team_id)]
        ga == [i \in M |-> GoalsAgainst(i, r.team_id)]
        W == {i \in M : gf[i] > ga[i]}
        D == {i \in M : gf[i] = ga[i]}
        L == {i \in M : gf[i] < ga[i]}
    IN  /\ r.played = Cardinality(M)
        /\ r.won = Cardinality(W) /\ r.drawn = Cardinality(D) /\ r.lost = Cardinality(L)
        /\ r.goals_for = SumOver(gf, M) /\ r.goals_against = SumOver(ga, M)
        /\ r.goal_difference = SumOver(gf, M) - SumOver(ga, M)
        /\ r.points = 3 * Cardinality(W) + Cardinality(D)

C12_RowArithmetic ==
    \A r \in standings :
        /\ r.played = r.won + r.drawn + r.lost
        /\ r.points = 3 * r.won + r.drawn
        /\ r.goal_difference = r.goals_for - r.goals_against

C12_Witness ==
    \E r \in standings :
        /\ r.played = 3 /\ r.won = 1 /\ r.drawn = 1 /\ r.lost = 1
        /\ r.points = 4

(***************************************************************************)
(* C13  As claimed: a second recalculate_standings for the same            *)
(* competition and season, with the matches unchanged, leaves every        *)
(* Standing row identical to the row after the first call.                 *)
(***************************************************************************)
RecalculatedOnce ==
    recalculate_standings(matches, standings, competition.id, competition.season_id, now + 1)

RecalculatedTwice ==
    recalculate_standings(matches, RecalculatedOnce, competition.id, competition.season_id,
                          now + 2)

C13_SecondCallLeavesRowsIdentical == RecalculatedTwice = RecalculatedOnce

(***************************************************************************)
(* C13, as the code has it: the second call leaves every column of every   *)
(* row as the first call left it except updated_at, which it sets to its   *)
(* own time in the rows of the teams with a counted match; it adds and     *)
(* removes no row.                                                         *)
(***************************************************************************)
WithoutUpdatedAt(rows) == {[r EXCEPT !.updated_at = 0] : r \in rows}

C13_IdempotentButForUpdatedAt ==
    /\ WithoutUpdatedAt(RecalculatedTwice) = WithoutUpdatedAt(RecalculatedOnce)
    /\ Cardinality(RecalculatedTwice) = Cardinality(RecalculatedOnce)
    /\ \A r \in RecalculatedTwice :
          r.updated_at = IF r.played > 0 THEN now + 2
                         ELSE (CHOOSE o \in standings : o.team_id = r.team_id).updated_at
    /\ last.op = "confirm_result" /\ last.err = NoError
          => WithoutUpdatedAt(RecalculatedOnce) = WithoutUpdatedAt(standings)

C13_Witness ==
    /\ last.op = "confirm_result" /\ last.err = NoError
    /\ \E r \in standings : r.played = 2 /\ r.updated_at = now
    /\ \E r \in RecalculatedTwice : r.played = 2 /\ r.updated_at = now + 2


(***************************************************************************)
(* The order of the standings table.                                       *)
(***************************************************************************)
\* the teams whose rows are level on points with row r
TiedWith(r) ==
    {q.team_id : q \in {x \in standings : /\ x.competition_id = r.competition_id
                                          /\ x.season_id = r.season_id
                                          /\ x.points = r.points}}

\* the confirmed league, group and stage-less matches between two teams of T
Meetings(r, T) ==
    {i \in DOMAIN matches :
        /\ matches[i].competition_id = r.competition_id
        /\ matches[i].season_id = r.season_id
        /\ matches[i].status = CONFIRMED
        /\ matches[i].stage \in {LEAGUE, GROUP, NoStage}
        /\ matches[i].home_team_id \in T
        /\ matches[i].away_team_id \in T
        /\ r.team_id \in {matches[i].home_team_id, matches[i].away_team_id}}

H2HPoints(r) ==
    LET S == Meetings(r, TiedWith(r))
    IN  3 * Cardinality({i \in S : GoalsFor(i, r.team_id) > GoalsAgainst(i, r.team_id)})
        + Cardinality({i \in S : GoalsFor(i, r.team_id) = GoalsAgainst(i, r.team_id)})

H2HGoalDifference(r) ==
    LET S == Meetings(r, TiedWith(r))
    IN  SumOver([i \in S |-> GoalsFor(i, r.team_id)], S)
        - SumOver([i \in S |-> GoalsAgainst(i, r.team_id)], S)

\* row a may stand above row b
MayPrecede(a, b) ==
    \/ a.points > b.points
    \/ /\ a.points = b.points
       /\ \/ H2HPoints(a) > H2HPoints(b)
          \/ /\ H2HPoints(a) = H2HPoints(b)
             /\ \/ H2HGoalDifference(a) > H2HGoalDifference(b)
                \/ /\ H2HGoalDifference(a) = H2HGoalDifference(b)
                   /\ \/ a.goal_difference > b.goal_difference
                      \/ /\ a.goal_difference = b.goal_difference
                         /\ a.goals_for >= b.goals_for

LeagueFixtures(ms) ==
    LET league == SelectSeq(ms, LAMBDA r : /\ r.competition_id = competition.id
                                           /\ r.stage = LEAGUE)
    IN  [k \in DOMAIN league |->
            <<league[k].home_team_id, league[k].away_team_id, league[k].matchday>>]

GenerateRoundRobinCalled == last'.op = "generate_round_robin" /\ generate_round_robin

\* C16: a call of generate_round_robin for a competition that has a LEAGUE
\* match fails with "Fixtures already generated", adds no match and no
\* Standing row and changes none; and once the competition has league
\* fixtures, no call changes which they are.
C16_SecondGenerationRejected ==
    [][ HasStage(matches, competition.id, LEAGUE) =>
            /\ LeagueFixtures(matches') = LeagueFixtures(matches)
            /\ GenerateRoundRobinCalled =>
                    /\ last'.err = ErrFixturesExist
                    /\ matches' = matches
                    /\ standings' = standings ]_vars

\* generate_round_robin has been rejected for a league whose fixtures are
\* those of the one successful call, one of them already confirmed.
C16_Witness ==
    /\ last.op = "generate_round_robin"
    /\ last.err = ErrFixturesExist
    /\ LeagueFixtures(matches) = LeagueFixtures(RoundRobinMatches(competition))
    /\ Len(matches) = Len(RoundRobinMatches(competition))
    /\ \E i \in DOMAIN matches : matches[i].status = CONFIRMED

(***************************************************************************)
(* The league fixtures.                                                    *)
(***************************************************************************)
LeagueIds == {i \in DOMAIN matches : matches[i].stage = LEAGUE}

TeamsOf(c) == Range(c.teams)

\* C15: after generate_round_robin has succeeded for a REGIONAL competition
\* of n >= 2 teams there are exactly n*(n-1) LEAGUE matches; every ordered
\* pair of distinct teams is the (home, away) of exactly one of them; every
\* team has n-1 home and n-1 away fixtures; no team plays twice on one
\* matchday; and no match has a null team.
C15_DoubleRoundRobin ==
    (last.op = "generate_round_robin" /\ last.err = NoError) =>
        LET n == Len(competition.teams)
            T == TeamsOf(competition)
        IN  /\ competition.type = REGIONAL /\ n >= 2
            /\ Cardinality(LeagueIds) = n * (n - 1)
            /\ LeagueIds = DOMAIN matches
            /\ \A a, b \in T : a # b =>
                    Cardinality({i \in LeagueIds : /\ matches[i].home_team_id = a
                                                   /\ matches[i].away_team_id = b}) = 1
            /\ \A a \in T :
                    /\ Cardinality({i \in LeagueIds : matches[i].home_team_id = a}) = n - 1
                    /\ Cardinality({i \in LeagueIds : matches[i].away_team_id = a}) = n - 1
            /\ \A i, j \in LeagueIds :
                    (i # j /\ matches[i].matchday = matches[j].matchday) =>
                        {matches[i].home_team_id, matches[i].away_team_id}
                            \cap {matches[j].home_team_id, matches[j].away_team_id} = {}
            /\ \A i \in LeagueIds :
                    /\ matches[i].home_team_id # Null
                    /\ matches[i].away_team_id # Null
                    /\ matches[i].home_team_id # matches[i].away_team_id

\* The fixtures of a league with an odd number of teams, the team of the
\* other county among them, have been generated.
C15_Witness ==
    /\ last.op = "generate_round_robin" /\ last.err = NoError
    /\ Len(competition.teams) = 5
    /\ 2 \in TeamsOf(competition)
    /\ matches # <<>>

(***************************************************************************)
(* The Champions League groups.                                            *)
(***************************************************************************)
\* the teams whose Standing row carries the group letter
GroupOf(letter) == {r.team_id : r \in {x \in standings : x.group_name = letter}}

\* the teams of the GROUP matches that carry the group letter
GroupPlayers(letter) ==
    UNION { {matches[i].home_team_id, matches[i].away_team_id} :
                i \in {k \in DOMAIN matches : /\ matches[k].stage = GROUP
                                              /\ matches[k].group_name = letter} }

\* 21 teams, three from each of 7 regions
SevenRegionsOfThree(c) ==
    /\ Len(c.teams) = 21
    /\ Cardinality(TeamsOf(c)) = 21
    /\ Cardinality({TeamRegion(t) : t \in TeamsOf(c)}) = 7
    /\ \A t \in TeamsOf(c) :
            Cardinality({u \in TeamsOf(c) : TeamRegion(u) = TeamRegion(t)}) = 3

\* C17: for a NATIONAL competition of 21 teams, three from each of 7
\* regions, generate_cl_groups never fails on the draw, whatever the
\* shuffles return, and leaves exactly 3 teams in each of the groups A..G,
\* no two teams of a group from the same region, every team in one group.
C17_GroupsOfThreeRegions ==
    ( /\ last.op = "generate_cl_groups"
      /\ competition.type = NATIONAL
      /\ SevenRegionsOfThree(competition) ) =>
        /\ last.err \in {NoError, ErrGroupsExist}
        /\ \A g \in DOMAIN group_letters :
              LET G == GroupOf(group_letters[g])
              IN  /\ Cardinality(G) = 3
                  /\ G = GroupPlayers(group_letters[g])
                  /\ G \subseteq TeamsOf(competition)
                  /\ \A a, b \in G : a # b => TeamRegion(a) # TeamRegion(b)
        /\ \A g, h \in DOMAIN group_letters :
              g # h => GroupOf(group_letters[g]) \cap GroupOf(group_letters[h]) = {}
        /\ Cardinality(standings) = 21

\* The groups have been drawn with the regions and the teams of a region
\* out of their listed order: group A is not headed by team 1, and the
\* teams 1 and 4 lie in groups that are not neighbours.
C17_Witness ==
    /\ last.op = "generate_cl_groups" /\ last.err = NoError
    /\ SevenRegionsOfThree(competition)
    /\ Len(matches) = 42
    /\ matches[1].home_team_id # 1
    /\ 1 \notin GroupOf("A")
    /\ \E g, h \in DOMAIN group_letters :
          /\ 1 \in GroupOf(group_letters[g])
          /\ 4 \in GroupOf(group_letters[h])
          /\ (h - g) % 7 \notin {1, 6}

(***************************************************************************)
(* The cup bracket as drawn.                                               *)
(***************************************************************************)
\* the smallest power of two that is at least n
LeastPowerOfTwo(n) ==
    CHOOSE p \in {2^k : k \in 0..10} : p >= n /\ (p = 1 \/ p \div 2 < n)

CupDrawn == last.op = "generate_cup_draw" /\ last.err = NoError

\* the first leaf position of the bracket of the competition
LeafStart == LeastPowerOfTwo(Len(competition.teams)) \div 2

InnerIds == {i \in DOMAIN matches : matches[i].bracket_position < LeafStart}
LeafIds == {i \in DOMAIN matches : matches[i].bracket_position >= LeafStart}

\* the teams that wait in a placeholder for their first opponent
ByeTeams ==
    UNION { {matches[i].home_team_id, matches[i].away_team_id} : i \in InnerIds } \ {Null}

HasTwoTeams(i) ==
    /\ matches[i].home_team_id # Null
    /\ matches[i].away_team_id # Null
    /\ matches[i].home_team_id # matches[i].away_team_id

\* the number of matches and of byes, the placeholders and the leaves
BracketShape ==
    LET n == Len(competition.teams)
        bracket_size == LeastPowerOfTwo(n)
    IN  /\ competition.type = CUP /\ n >= 2
        /\ Cardinality(ByeTeams) = bracket_size - n
        /\ (n = bracket_size) => ByeTeams = {}
        /\ Len(matches) = n - 1
        /\ {matches[i].bracket_position : i \in InnerIds} = 1..(LeafStart - 1)
        /\ Cardinality(InnerIds) = LeafStart - 1
        /\ Cardinality(LeafIds) = LeafStart - (bracket_size - n)
        /\ \A i, j \in LeafIds :
                i # j => matches[i].bracket_position # matches[j].bracket_position
        /\ \A i \in LeafIds :
                /\ matches[i].bracket_position \in LeafStart..(bracket_size - 1)
                /\ matches[i].stage = ROUND_1
        /\ ByeTeams \cap UNION { {matches[i].home_team_id, matches[i].away_team_id} :
                                    i \in LeafIds } = {}

WentThrough(i) ==
    IF matches[i].home_score > matches[i].away_score THEN matches[i].home_team_id
    ELSE IF matches[i].home_score < matches[i].away_score THEN matches[i].away_team_id
    ELSE matches[i].penalty_winner_id

\* the team in the slot of match i that position child feeds: the home slot
\* for an even position, the away slot for an odd one
SlotFedBy(i, child) ==
    IF child % 2 = 0 THEN matches[i].home_team_id ELSE matches[i].away_team_id

\* the slot comes from the match at position child, or, there being no such
\* match, holds a team of the competition that plays in no other match of
\* the first round
SlotFilledFrom(i, child) ==
    LET C == {j \in DOMAIN matches : matches[j].bracket_position = child}
    IN  IF C # {}
        THEN \A j \in C : matches[j].status = CONFIRMED
                          /\ SlotFedBy(i, child) = WentThrough(j)
        ELSE /\ SlotFedBy(i, child) \in TeamsOf(competition)
             /\ \A j \in LeafIds : SlotFedBy(i, child) \notin
                    {matches[j].home_team_id, matches[j].away_team_id}

CupPlayedOut ==
    /\ matches # <<>>
    /\ \A i \in DOMAIN matches :
            /\ matches[i].status = CONFIRMED
            /\ HasTwoTeams(i)
            /\ i \in InnerIds =>
                    /\ SlotFilledFrom(i, 2 * matches[i].bracket_position)
                    /\ SlotFilledFrom(i, 2 * matches[i].bracket_position + 1)
    /\ \E i \in DOMAIN matches : matches[i].bracket_position = 1 /\ HasTwoTeams(i)

\* C19: once the bracket of a cup is drawn, with or without byes, and every
\* match is submitted and confirmed when both of its team slots are filled,
\* eventually every match of the bracket is CONFIRMED, each inner match
\* holding in each slot the team that went through from the child feeding
\* it, or a bye team where there is no child, and the final is between two
\* teams.
C19_CupIsPlayedOut == HasBracket(matches, competition.id) ~> CupPlayedOut

\* A cup of five teams, three of them with a bye, is played out, one match
\* decided on penalties.
C19_Witness ==
    /\ Len(competition.teams) = 5
    /\ CupPlayedOut
    /\ Len(matches) = 4
    /\ \E i \in DOMAIN matches :
            /\ matches[i].home_score = matches[i].away_score
            /\ matches[i].penalty_winner_id # Null

(***************************************************************************)
(* The full queue.                                                         *)
(***************************************************************************)
PublishCalled(event_type) ==
    /\ last'.op = "publish"
    /\ publish_event(event_type, <<>>)

\* C20: a publish leaves the queue of a subscriber that holds 50 messages
\* as it is and takes that subscriber off the bus, and appends the message
\* to the queue of every other subscriber, which stays on the bus; publish
\* can always be called and completes; and no queue ever holds more than
\* 50 messages.
C20_FullQueueIsDropped ==
    /\ [](\A q \in DOMAIN queues : Len(queues[q]) <= 50)
    /\ [](\A event_type \in {"fill", "overflow"} : ENABLED publish_event(event_type, <<>>))
    /\ [][\A event_type \in {"fill", "overflow"} :
            PublishCalled(event_type) =>
                \A q \in Range(subscribers) :
                    IF Len(queues[q]) = 50
                    THEN /\ queues'[q] = queues[q]
                         /\ q \notin Range(subscribers')
                    ELSE /\ queues'[q] = Append(queues[q], Event(event_type, <<>>))
                         /\ q \in Range(subscribers')]_vars

\* A publish has found one subscriber's queue full and another's not: the
\* first is off the bus with its 50 messages, the other is on it and holds
\* the message.
C20_Witness ==
    /\ last.op = "publish"
    /\ last.published[1].type = "overflow"
    /\ \E q, r \in DOMAIN queues :
            /\ q \notin Range(subscribers)
            /\ Len(queues[q]) = 50
            /\ \A k \in DOMAIN queues[q] : queues[q][k].type = "fill"
            /\ r \in Range(subscribers)
            /\ queues[r] # <<>>
            /\ queues[r][Len(queues[r])].type = "overflow"

(***************************************************************************)
(* What a subscriber's buffer holds.                                       *)
(***************************************************************************)
\* C21: the messages put into a queue are the events published while the
\* queue is in the list of subscribers, each once and at the tail, in the
\* order of the publish calls: a publish appends its message to every
\* registered queue that has room and to no other queue (never subscribed,
\* unsubscribed or dropped when full), and no other step puts anything
\* into any queue.
C21_BufferIsThePublishedSequence ==
    [][\A q \in DOMAIN queues :
          /\ \A event_type \in {"fill", "overflow"} :
                PublishCalled(event_type) =>
                    queues'[q] =
                        IF q \in Range(subscribers) /\ Len(queues[q]) < QueueMaxSize
                        THEN Append(queues[q], Event(event_type, <<>>))
                        ELSE queues[q]
          /\ (\A event_type \in {"fill", "overflow"} : ~PublishCalled(event_type)) =>
                \/ queues'[q] = queues[q]
                \/ queues'[q] = <<>>
                \/ queues[q] # <<>> /\ queues'[q] = Tail(queues[q])]_vars

\* One queue was dropped with its 50 messages by the publish of "overflow",
\* the other stayed registered and holds "overflow" and then the "fill"
\* published next; the dropped queue got neither.
C21_Witness ==
    /\ last.op = "publish"
    /\ last.published[1].type = "fill"
    /\ \E q, r \in DOMAIN queues :
            /\ q \in Range(subscribers)
            /\ Len(queues[q]) >= 2
            /\ queues[q][Len(queues[q]) - 1].type = "overflow"
            /\ queues[q][Len(queues[q])].type = "fill"
            /\ r \notin Range(subscribers)
            /\ Len(queues[r]) = QueueMaxSize
            /\ \A k \in DOMAIN queues[r] : queues[r][k].type = "fill"

(***************************************************************************)
(* The bus's methods are linearizable.                                     *)
(***************************************************************************)
\* what the rest of a publish's loops makes of the bus
RECURSIVE FinishPublish(_, _, _, _, _)
FinishPublish(subs, qs, i, dead, msg) ==
    IF i > Len(subs)
    THEN Bus(SelectSeq(subs, LAMBDA s : s \notin Range(dead)), qs)
    ELSE IF Len(qs[subs[i]]) < QueueMaxSize
    THEN FinishPublish(subs, [qs EXCEPT ![subs[i]] = Append(@, msg)], i + 1, dead, msg)
    ELSE FinishPublish(subs, qs, i + 1, Append(dead, subs[i]), msg)

\* the bus as the call of thread t leaves it once it has run to its end
Pending(t) ==
    LET f == threads[t]
        gone == IF f.op = "unsubscribe" THEN [queues EXCEPT ![f.arg] = <<>>] ELSE queues
    IN  IF f.pc = "append" THEN Bus(Append(subscribers, f.arg), queues)
        ELSE IF f.pc = "filter"
        THEN Bus(SelectSeq(subscribers, LAMBDA s : s # f.arg), gone)
        ELSE IF f.pc = "assign" THEN Bus(f.local, gone)
        ELSE IF f.pc = "loop"
        THEN FinishPublish(subscribers, queues, f.local.i, f.local.dead, f.arg)
        ELSE IF f.pc = "remove"
        THEN Bus(SelectSeq(subscribers, LAMBDA s : s \notin Range(f.local.dead)), queues)
        ELSE Bus(subscribers, gone)

\* the bus with the call that holds the lock taken as done
Linearized == IF lock = Null THEN Bus(subscribers, queues) ELSE Pending(lock)

\* the call of frame f made in one step
AtomicCall(bus, f) ==
    IF f.op = "subscribe" THEN Bus(Append(bus.subscribers, f.arg), bus.queues)
    ELSE IF f.op = "unsubscribe"
    THEN Bus(SelectSeq(bus.subscribers, LAMBDA s : s # f.arg),
             [bus.queues EXCEPT ![f.arg] = <<>>])
    ELSE publish(bus, f.arg)

\* the events a queue holds, without the backlog
Received(q) == SelectSeq(queues[q], LAMBDA m : m.type = "ping")

SameRelativeOrder ==
    \A q, r \in DOMAIN queues :
        \A i, j \in DOMAIN Received(q), k, l \in DOMAIN Received(r) :
            (i < j /\ Received(q)[i] = Received(r)[k] /\ Received(q)[j] = Received(r)[l])
                => k < l

\* C22: with the calls of subscribe, unsubscribe and publish interleaved
\* step by step, the list of subscribers and the queues go through the
\* states of a run in which every call is made in one step, at the moment
\* its thread takes the lock: a step either leaves the bus, seen with the
\* lock holder's call as done, as it is, or is the taking of the lock by a
\* call and changes it as that call made in one step does.  Hence no step
\* but a call's own adds or removes a subscriber, and two subscribers hold
\* the events they both received in the same order.
C22_BusIsLinearizable ==
    /\ [][\/ Linearized' = Linearized
          \/ \E t \in Threads :
                /\ threads[t].pc = "acquire"
                /\ threads'[t].pc # "acquire"
                /\ Linearized' = AtomicCall(Linearized, threads[t])]_vars
    /\ []SameRelativeOrder

\* Two subscribers hold the same two events; a third publish is in its
\* loop, between the first queue and the second, while the other thread
\* waits for the lock with an unsubscribe.
C22_Witness ==
    /\ subscribers = <<1, 2>>
    /\ Len(Received(1)) = 3
    /\ Len(Received(2)) = 2
    /\ \E t, u \in Threads :
            /\ lock = t
            /\ threads[t].op = "publish"
            /\ threads[t].pc = "loop"
            /\ threads[t].local.i = 2
            /\ threads[u].op = "unsubscribe"
            /\ threads[u].pc = "acquire"

(***************************************************************************)
(* The active season.                                                      *)
(***************************************************************************)
ActiveSeasons == {i \in DOMAIN seasons : seasons[i].is_active}

\* C23: in every state at most one season has is_active = true.
C23_AtMostOneActiveSeason == Cardinality(ActiveSeasons) <= 1

\* The part of C23 about create_season alone: the season it adds is the
\* only active one.
C23_CreateLeavesOneActive ==
    [][last'.op = "create_season" /\ Len(seasons') = Len(seasons) + 1
            => {i \in DOMAIN seasons' : seasons'[i].is_active} = {Len(seasons')}]_vars

\* update_season has set is_active on a season while another one is active.
C23_Witness ==
    /\ last.op = "update_season"
    /\ last.err = NoError
    /\ Cardinality(ActiveSeasons) = 2
\* C24: adding a team that is a member of the competition succeeds and
\* leaves the members as they were, for the single add and for the batch add
MembersNamed(team_ids) == Range(team_ids) \cap Range(competition.teams)

C24_DuplicateAddIsNoOp ==
    [][/\ (/\ last'.op = "add_team_to_competition"
           /\ last'.match = competition.id
           /\ last'.team_id \in Range(competition.teams))
          => (last'.err = NoError /\ competition'.teams = competition.teams)
       /\ (/\ last'.op = "batch_add_teams"
           /\ last'.match = competition.id
           /\ Range(last'.team_ids) \cap AllTeams \subseteq Range(competition.teams))
          => (last'.err = NoError /\ competition'.teams = competition.teams)]_vars

\* the batch half alone: teams that are members are skipped, a team named
\* twice is added once, and the members keep no team twice
C24_BatchSkipsMembers ==
    [][(last'.op = "batch_add_teams" /\ last'.match = competition.id)
          => /\ last'.err = NoError
             /\ Range(competition'.teams)
                   = Range(competition.teams) \cup (Range(last'.team_ids) \cap AllTeams)
             /\ Len(competition'.teams) = Cardinality(Range(competition'.teams))
             /\ last'.added = Len(competition'.teams) - Len(competition.teams)]_vars

\* a single add of a member has ended with the error of the constraint
C24_Witness ==
    /\ last.op = "add_team_to_competition"
    /\ last.team_id \in Range(competition.teams)
    /\ last.err = ErrIntegrity

\* C25: a successful qualification that follows a successful one with the
\* same arguments, the standings being read in the same order, adds no team:
\* added_to_cl is 0, already_in_cl is qualified_count, the target's teams
\* are as they were and hold no team twice
QualifiedOk(l) == l.op = "qualify_for_champions_league" /\ l.err = NoError

C25_SecondQualificationAddsNothing ==
    [][(/\ QualifiedOk(last) /\ QualifiedOk(last')
        /\ last'.args = last.args
        /\ last'.raw = last.raw)
          => /\ last'.added_to_cl = 0
             /\ last'.already_in_cl = last'.qualified_count
             /\ last'.qualified_count = last.qualified_count
             /\ competition'.teams = competition.teams
             /\ Len(competition'.teams) = Cardinality(Range(competition'.teams))]_vars

\* a qualification of the two best of both regionals has found all four in
\* the target; teams 2 and 5 come into it by a qualification only
C25_Witness ==
    /\ QualifiedOk(last)
    /\ last.args = <<1, 1, 2>>
    /\ last.added_to_cl = 0
    /\ last.already_in_cl = 4
    /\ {1, 2, 4, 5} \subseteq Range(competition.teams)

\* C26: a qualification adds no team unless every regional of the season
\* is complete, that is has a LEAGUE or GROUP match and has all of them
\* CONFIRMED; with a regional that is not (one without fixtures too) the call
\* ends in an error and the target's teams are as they were
Complete(competition_id) ==
    LET fixtures == {i \in DOMAIN matches :
                        /\ matches[i].competition_id = competition_id
                        /\ matches[i].stage \in {LEAGUE, GROUP}}
    IN  /\ fixtures # {}
        /\ \A i \in fixtures : matches[i].status = CONFIRMED

RegionalsOf(season_id) ==
    {regionals[k].id : k \in {j \in DOMAIN regionals :
                                /\ regionals[j].season_id = season_id
                                /\ regionals[j].type = REGIONAL}}

C26_NoTeamUnlessEveryRegionalComplete ==
    [][/\ (/\ last'.op = "qualify_for_champions_league"
           /\ \E id \in RegionalsOf(last'.args[1]) : ~Complete(id))
          => (last'.err # NoError /\ competition'.teams = competition.teams)
       /\ (/\ last'.op = "qualify_for_champions_league"
           /\ competition'.teams # competition.teams)
          => /\ RegionalsOf(last'.args[1]) # {}
             /\ \A id \in RegionalsOf(last'.args[1]) : Complete(id)]_vars

\* a qualification was refused for a regional that has no fixture of a
\* league, though it has a table
C26_Witness ==
    /\ last.op = "qualify_for_champions_league"
    /\ last.err = ErrNotComplete
    /\ \E id \in RegionalsOf(last.args[1]) :
          /\ \A i \in DOMAIN matches :
                matches[i].competition_id = id => matches[i].stage \notin {LEAGUE, GROUP}
          /\ \E r \in standings : r.competition_id = id

\* and a qualification has added the best of two complete regionals
C26_Qualified ==
    /\ last.op = "qualify_for_champions_league"
    /\ last.err = NoError
    /\ last.added_to_cl > 0

\* C27: a reset of the bracket is refused and deletes nothing while a
\* bracket match of the competition is CONFIRMED, so no step removes or
\* alters a CONFIRMED bracket match; a reset that succeeds removes every
\* bracket match of the competition and nothing else, after which the draw
\* finds no bracket
ConfirmedBracket(ms) ==
    {i \in BracketMatches(ms, competition.id) : ms[i].status = CONFIRMED}

ResetCalled == last'.op = "reset_bracket" /\ last'.match = competition.id

C27_ResetRefusedWhileConfirmed ==
    [][/\ (ResetCalled /\ ConfirmedBracket(matches) # {})
          => (last'.err = ErrResetConfirmed /\ matches' = matches)
       /\ \A i \in ConfirmedBracket(matches) :
             i \in DOMAIN matches' /\ matches'[i] = matches[i]
       /\ (ResetCalled /\ last'.err = NoError)
          => /\ BracketMatches(matches, competition.id) # {}
             /\ BracketMatches(matches', competition.id) = {}
             /\ ~HasBracket(matches', competition.id)
             /\ matches' = SelectSeq(matches, LAMBDA m : m.bracket_position = Null)
             /\ last'.deleted = Len(matches) - Len(matches')
       /\ (ResetCalled /\ last'.err # NoError) => matches' = matches]_vars

\* a reset has been refused for a bracket with a confirmed match
C27_Witness ==
    /\ last.op = "reset_bracket"
    /\ last.err = ErrResetConfirmed
    /\ ConfirmedBracket(matches) # {}

\* a reset has deleted a bracket and left the match made by hand
C27_ResetDone ==
    /\ last.op = "reset_bracket"
    /\ last.err = NoError
    /\ last.deleted = 3
    /\ Len(matches) = 1

\* what a confirmation of match m changes, as committed: the status, the
\* rows of its two teams when it counts for the table, and the parent's
\* slot when it is a single-leg bracket match below the final
StandingsInclude(m) ==
    matches[m].stage \in {LEAGUE, GROUP, NoStage} =>
        \A team \in {matches[m].home_team_id, matches[m].away_team_id} :
            \E r \in standings :
                /\ r.team_id = team
                /\ r.competition_id = matches[m].competition_id
                /\ r.season_id = matches[m].season_id
                /\ RowIsAggregate(r)

SlotFilled(m) ==
    (/\ matches[m].bracket_position # Null
     /\ matches[m].bracket_position > 1
     /\ matches[m].leg = Null)
        => ParentHolds(matches, matches[m].bracket_position, SingleLegWinner(matches[m]))

Applied(m) ==
    /\ matches[m].status = CONFIRMED
    /\ StandingsInclude(m)
    /\ SlotFilled(m)

\* the step is a publish call of thread t's confirmation
Publishes(t) ==
    /\ threads[t].op = "confirm_result"
    /\ Len(IF threads'[t].pc = "idle" THEN last'.published
           ELSE threads'[t].local.published) > Len(threads[t].local.published)

\* C28: no event of a confirmation is published before the status, the
\* standings and the parent's slot of that confirmation are committed
C28_EventsOnlyAfterAllCommits ==
    [][\A t \in Threads : Publishes(t) => Applied(threads[t].arg)]_vars

\* what does hold: the status is committed, and the thread's own recompute
\* is, before its first event, and the slot is filled before bracket_updated
C28_EventsAfterStatusCommit ==
    [][\A t \in Threads :
          Publishes(t) => /\ matches[threads[t].arg].status = CONFIRMED
                          /\ threads[t].pc \notin {"recalculate_query", "recalculate_rows",
                                                   "recalculate_commit"}
                          /\ threads[t].pc = "publish_bracket" => SlotFilled(threads[t].arg)]_vars

\* a subscriber holds match_confirmed of a bracket match whose winner is
\* not in the parent's slot
C28_Witness ==
    \E t \in Threads :
        /\ At(t, "advance")
        /\ \E k \in DOMAIN queues[1] :
              /\ queues[1][k].type = "match_confirmed"
              /\ queues[1][k].data.match_id = threads[t].arg
        /\ ~SlotFilled(threads[t].arg)

\* C29: the status, the standings and the parent's slot change in one
\* commit: in no committed state is a match CONFIRMED without its result
\* in the standings and its winner in the parent's slot
C29_ConfirmedMeansApplied ==
    \A m \in DOMAIN matches : matches[m].status = CONFIRMED => Applied(m)

\* a call has failed in the commit of the standings and has left its match
\* CONFIRMED
C29_Witness ==
    /\ last.op = "confirm_result"
    /\ last.err = ErrIntegrity
    /\ \A t \in Threads : threads[t] = Idle
    /\ matches[last.match].status = CONFIRMED
    /\ ~StandingsInclude(last.match)

\* C30: when no confirmation is in progress, every Standing row is the
\* aggregate over the CONFIRMED matches that count
C30_QuiescentStandingsAreAggregates ==
    (\A t \in Threads : threads[t] = Idle) => \A r \in standings : RowIsAggregate(r)

\* both fixtures of the league are confirmed, both calls have returned
\* without error, and a row is not the aggregate
C30_Witness ==
    /\ \A t \in Threads : threads[t] = Idle
    /\ last.op = "confirm_result" /\ last.err = NoError
    /\ \A i \in DOMAIN matches : matches[i].stage = LEAGUE /\ matches[i].status = CONFIRMED
    /\ \E r \in standings : ~RowIsAggregate(r)


(***************************************************************************)
(* The brackets as they are generated: a cup of any size drawn, or the     *)
(* knockout bracket of the Champions League made of four pairs.            *)
(***************************************************************************)
BracketCompetitions ==
    {Competition(CUP, [i \in 1..n |-> i]) : n \in 2..MaxCupTeams}
    \cup {Competition(NATIONAL, <<1, 2, 3, 4, 5, 6, 7, 8>>)}

\* the pairs handed to generate_cl_knockout_bracket: the teams in some order,
\* two by two
PairInputs ==
    IF competition.type = NATIONAL /\ ~HasStage(matches, competition.id, QUARTER_FINAL)
    THEN {[k \in 1..4 |-> <<s[2 * k - 1], s[2 * k]>>] : s \in DrawShuffles(competition.teams)}
    ELSE {CLTeamPairs}

InitBracket ==
    /\ competition \in BracketCompetitions
    /\ matches = <<>>
    /\ standings = {}
    /\ subscribers = <<>>
    /\ queues = [q \in QueueIds |-> <<>>]
    /\ scope = AllPositions
    /\ last = Call("init", Null, NoError, <<>>)
    /\ now = 0
    /\ InitElsewhere

NextBracket ==
    \/ \E shuffled \in CupShuffleInputs : generate_cup_draw(shuffled)
    \/ \E team_pairs \in PairInputs : generate_cl_knockout_bracket(team_pairs)

SpecBracket == InitBracket /\ [][NextBracket]_vars

\* bracket_size: of a cup the least power of two that holds its teams; the
\* knockout bracket of four quarter-finals is one of eight
BracketSize ==
    IF competition.type = CUP THEN LeastPowerOfTwo(Len(competition.teams)) ELSE 2 * Len(CLTeamPairs)

CoveredPositions == {matches[i].bracket_position : i \in DOMAIN matches} \ {Null}

\* the leaves of the teams with a bye: leaf_start + i for i < num_byes
ByeLeaves ==
    IF competition.type = CUP
    THEN LeafStart..(LeafStart + (BracketSize - Len(competition.teams)) - 1)
    ELSE {}

RowsAt(p) == {i \in DOMAIN matches : matches[i].bracket_position = p}

\* one match at the position, or the two legs of one tie
OneTieAt(p) ==
    \/ \E i \in RowsAt(p) : RowsAt(p) = {i} /\ matches[i].leg \in {Null, 1}
    \/ \E i, j \in RowsAt(p) : /\ RowsAt(p) = {i, j} /\ i # j
                               /\ matches[i].leg = 1 /\ matches[j].leg = 2

\* The matches as they are once the tie of row i is decided for a team w
\* that plays nowhere else: w at home wins row i 1-0; in a tie of two legs
\* the other leg, w away, is drawn 0-0.
DecidedFor(i, w) ==
    [k \in DOMAIN matches |->
        IF matches[k].bracket_position # matches[i].bracket_position THEN matches[k]
        ELSE IF k = i \/ matches[k].leg = matches[i].leg
        THEN [matches[k] EXCEPT !.home_team_id = w, !.away_team_id = w + 1,
                                !.home_score = 1, !.away_score = 0,
                                !.status = CONFIRMED]
        ELSE [matches[k] EXCEPT !.home_team_id = w + 1, !.away_team_id = w,
                                !.home_score = 0, !.away_score = 0,
                                !.status = CONFIRMED]]

\* The winner of row i goes to the rows at half its position, into the slot
\* of its parity, and to no other row.
FedToParent(i) ==
    LET p == matches[i].bracket_position
        w == Len(competition.teams) + 1
        before == DecidedFor(i, w)
        after == advance_bracket_winner(before, i)
    IN  /\ ParentRows(matches, p) # {}
        /\ \A k \in DOMAIN matches :
                IF k \in ParentRows(matches, p)
                THEN /\ FedSlot(after, k, p) = w
                     /\ after[k] # before[k]
                ELSE after[k] = before[k]

EveryWinnerFed ==
    \A i \in DOMAIN matches : matches[i].bracket_position > 1 => FedToParent(i)

\* C31 as stated: in every generated bracket a match covers every position
\* from 1 to bracket_size - 1, and the winner of each position but the root
\* is fed to the match(es) at half the position and nowhere else.
C31_EveryPositionCovered ==
    HasBracket(matches, competition.id) =>
        /\ CoveredPositions = 1..(BracketSize - 1)
        /\ EveryWinnerFed

\* C31, amended: in every generated bracket the positions covered by a match
\* are those from 1 to bracket_size - 1 except the leaves of the teams with a
\* bye; each covered position holds one match or the two legs of one tie; a
\* bye leaf holds no match, its team waits in the slot of its parity of the
\* match at half the leaf; and the winner of each covered position but the
\* root is fed to the match(es) at half the position and nowhere else.
C31_CoveredButByeLeaves ==
    HasBracket(matches, competition.id) =>
        /\ CoveredPositions = (1..(BracketSize - 1)) \ ByeLeaves
        /\ \A p \in CoveredPositions : OneTieAt(p)
        /\ \A leaf \in ByeLeaves :
                /\ RowsAt(leaf) = {}
                /\ \E t \in Range(competition.teams) : ParentHolds(matches, leaf, t)
                /\ ParentRows(matches, leaf) # {}
        /\ EveryWinnerFed

\* a cup is drawn with a bye, and no match stands at the leaf of the bye
C31_Witness ==
    /\ CupDrawn
    /\ ByeLeaves # {}
    /\ ByeLeaves \cap CoveredPositions = {}
    /\ EveryWinnerFed


\* the team slots (row, side) that hold team t
SlotsOf(t) ==
    {<<i, "home">> : i \in {k \in DOMAIN matches : matches[k].home_team_id = t}}
    \cup {<<i, "away">> : i \in {k \in DOMAIN matches : matches[k].away_team_id = t}}

\* the slot of a placeholder is filled exactly when the leaf below it on
\* that side is the leaf of a bye: the home slot from the even leaf, the
\* away slot from the odd one
ByesInParentSlots ==
    \A i \in InnerIds :
        LET bp == matches[i].bracket_position
        IN  /\ (matches[i].home_team_id # Null) = (2 * bp \in ByeLeaves)
            /\ (matches[i].away_team_id # Null) = (2 * bp + 1 \in ByeLeaves)

\* C32: right after generate_cup_draw every team of the cup occupies exactly
\* one team slot: a team with a bye the slot (home for an even leaf, away
\* for an odd one) of the placeholder at half its leaf position, every other
\* team a slot of one ROUND_1 leaf match; no slot is given to two teams.
C32_EveryTeamInOneSlot ==
    CupDrawn =>
        /\ \A t \in Range(competition.teams) : Cardinality(SlotsOf(t)) = 1
        /\ ByesInParentSlots
        /\ Cardinality(ByeTeams) = Cardinality(ByeLeaves)
        /\ \A t \in Range(competition.teams) \ ByeTeams :
              \E i \in LeafIds : /\ matches[i].stage = ROUND_1
                                 /\ t \in {matches[i].home_team_id, matches[i].away_team_id}
        /\ \A i \in DOMAIN matches :
              {matches[i].home_team_id, matches[i].away_team_id} \subseteq
                  Range(competition.teams) \cup {Null}

\* a cup is drawn in which two teams with a bye wait in the two slots of
\* one placeholder while other teams play their leaf matches
C32_Witness ==
    /\ CupDrawn
    /\ \E i \in InnerIds : HasTwoTeams(i)
    /\ LeafIds # {}
    /\ \A t \in Range(competition.teams) : Cardinality(SlotsOf(t)) = 1


(***************************************************************************)
(* advance_cl_knockout: the seven group winners and the best runner-up,    *)
(* and the quarter-final pairings drawn from them.                         *)
(***************************************************************************)
ErrGroupTooSmall == "Group does not have enough teams with standings"
ErrAdvanceNotNational == "Knockout advancement is only for national competitions"

\* the first unused unseeded team of another group for each seeded team in
\* turn, or else the first unused one
RECURSIVE PairSeeded(_, _, _, _)
PairSeeded(seeded, unseeded, used, all_groups) ==
    IF seeded = <<>> THEN <<>>
    ELSE LET s_id == Head(seeded)
             other == {k \in DOMAIN unseeded :
                          /\ unseeded[k] \notin used
                          /\ all_groups[s_id] # all_groups[unseeded[k]]}
             free == {k \in DOMAIN unseeded : unseeded[k] \notin used}
             First(K) == unseeded[CHOOSE k \in K : \A j \in K : k <= j]
         IN  IF other # {}
             THEN <<<<s_id, First(other)>>>>
                  \o PairSeeded(Tail(seeded), unseeded, used \cup {First(other)}, all_groups)
             ELSE IF free # {}
             THEN <<<<s_id, First(free)>>>>
                  \o PairSeeded(Tail(seeded), unseeded, used \cup {First(free)}, all_groups)
             ELSE PairSeeded(Tail(seeded), unseeded, used, all_groups)

KnockoutResult(competition_id, err, qualified_team_ids, pairings) ==
    [op |-> "advance_cl_knockout", match |-> competition_id, err |-> err,
     published |-> <<>>, qualified_team_ids |-> qualified_team_ids, pairings |-> pairings]

\* standings[letter] is sort_standings of the rows of the group; shuffle is
\* the order random.shuffle gives the four unseeded teams
KnockoutOutcome(competition_id, standings_of, shuffle) ==
    LET winners == [g \in DOMAIN group_letters |-> standings_of[g][1]]
        runners_up == [g \in DOMAIN group_letters |-> standings_of[g][2]]
        key(rows) == [r \in Range(rows) |-> <<r.points, r.goal_difference, r.goals_for>>]
        best_runners == SubSeq(sorted_reverse(runners_up, key(runners_up)), 1, 1)
        qualified_team_ids == TeamIds(winners) \o TeamIds(best_runners)
        by_strength == sorted_reverse(winners, key(winners))
        seeded == TeamIds(SubSeq(by_strength, 1, 4))
        unseeded == TeamIds(SubSeq(by_strength, 5, Len(by_strength))) \o TeamIds(best_runners)
        all_groups == [t \in Range(qualified_team_ids) |->
                          LET r == CHOOSE r \in Range(winners) \cup Range(best_runners) :
                                        r.team_id = t
                          IN  r.group_name]
        shuffled == [k \in DOMAIN unseeded |-> unseeded[shuffle[k]]]
    IN  IF \E g \in DOMAIN group_letters : Len(standings_of[g]) < 2
        THEN KnockoutResult(competition_id, ErrGroupTooSmall, <<>>, <<>>)
        ELSE KnockoutResult(competition_id, NoError, qualified_team_ids,
                            PairSeeded(seeded, shuffled, {}, all_groups))

\* Standing.query.filter_by(competition_id, season_id, group_name).all()
GroupRows(rows, letter) ==
    LET S == {r \in rows : /\ r.competition_id = competition.id
                           /\ r.season_id = competition.season_id
                           /\ r.group_name = letter}
    IN  [k \in 1..Cardinality(S) |->
            CHOOSE r \in S : Cardinality({q \in S : q.team_id <= r.team_id}) = k]

advance_cl_knockout(competition_id, shuffle) ==
    /\ last' = IF competition_id # competition.id
               THEN KnockoutResult(competition_id, ErrCompetitionNotFound, <<>>, <<>>)
               ELSE IF competition.type # NATIONAL
               THEN KnockoutResult(competition_id, ErrAdvanceNotNational, <<>>, <<>>)
               ELSE KnockoutOutcome(competition_id,
                        [g \in DOMAIN group_letters |->
                            sort_standings(matches, GroupRows(standings, group_letters[g]),
                                           competition_id, competition.season_id)],
                        shuffle)
    /\ UNCHANGED <<elsewhere, competition, matches, standings, subscribers, queues,
                   scope, now>>

\* The group stage as far as it is played: the first team of a group has
\* won every match it played, the second has beaten the third.
GroupWon == << <<CONFIRMED, 1, 0>>, <<CONFIRMED, 0, 1>>, <<CONFIRMED, 1, 0>>,
               <<CONFIRMED, 0, 1>>, <<CONFIRMED, 1, 0>>, <<CONFIRMED, 0, 1>> >>
GroupOpen == << <<CONFIRMED, 1, 0>>, <<CONFIRMED, 0, 1>>, <<CONFIRMED, 1, 0>>,
                <<SCHEDULED, NoScore, NoScore>>, <<CONFIRMED, 1, 0>>,
                <<SCHEDULED, NoScore, NoScore>> >>
GroupChased == << <<CONFIRMED, 1, 0>>, <<CONFIRMED, 0, 1>>, <<CONFIRMED, 1, 0>>,
                  <<SCHEDULED, NoScore, NoScore>>, <<CONFIRMED, 1, 0>>,
                  <<CONFIRMED, 0, 1>> >>
GroupStages == {GroupWon, GroupOpen, GroupChased}

\* the groups A..D each at a stage of their own, the groups E..G at one
GroupWorlds ==
    {[g \in DOMAIN group_letters |-> IF g <= 4 THEN front[g] ELSE back] :
        front \in [1..4 -> GroupStages], back \in {GroupWon, GroupOpen}}

ShuffleInputs == {s \in [1..4 -> 1..4] : \A i, j \in 1..4 : s[i] = s[j] => i = j}

InitKnockout ==
    /\ subscribers = <<>>
    /\ queues = [q \in QueueIds |-> <<>>]
    /\ scope = AllPositions
    /\ last = Call("init", Null, NoError, <<>>)
    /\ now = 2
    /\ InitElsewhere
    /\ \/ /\ competition \in {Competition(CUP, <<1, 2>>), Competition(NATIONAL, CLGroupTeams)}
          /\ matches = <<>>
          /\ standings = {}
       \/ /\ competition = Competition(NATIONAL, CLGroupTeams)
          /\ \E world \in GroupWorlds :
                LET groups == CLGroups(RegionIds(CLGroupTeams), RegionMap(CLGroupTeams))
                    PlayedUpTo[g \in 0..Len(groups)] ==
                        IF g = 0 THEN <<>>
                        ELSE PlayedUpTo[g - 1]
                             \o AtStage(GroupMatches(competition, groups[g], group_letters[g]),
                                        world[g])
                IN  /\ matches = PlayedUpTo[Len(groups)]
                    /\ standings =
                          recalculate_standings(matches,
                              CLGroupStandings(competition, groups, 1), 1, 1, now)

NextKnockout ==
    \E competition_id \in {1, 2} :
        \E shuffle \in ShuffleInputs : advance_cl_knockout(competition_id, shuffle)

SpecKnockout == InitKnockout /\ [][NextKnockout]_vars

\* the team of group g with k - 1 teams of the group above it on points
TopOfGroup(g, k) ==
    LET S == {r \in standings : r.group_name = group_letters[g]}
        r == CHOOSE r \in S : Cardinality({q \in S : q.points > r.points}) = k - 1
    IN  r.team_id

RowOf(t) == CHOOSE r \in standings : r.team_id = t

GroupNameOf(t) == RowOf(t).group_name

\* team a is ahead of team b on points, goal difference and goals for
StrongerWinner(a, b) ==
    KeyGreater(<<RowOf(a).points, RowOf(a).goal_difference, RowOf(a).goals_for>>,
               <<RowOf(b).points, RowOf(b).goal_difference, RowOf(b).goals_for>>)

Advanced == last.op = "advance_cl_knockout" /\ last.err = NoError

SameGroupPair == \E k \in DOMAIN last.pairings :
                    GroupNameOf(last.pairings[k][1]) = GroupNameOf(last.pairings[k][2])

\* the group winners in the pairings' first places and the other teams
PairedSeeded == {last.pairings[k][1] : k \in DOMAIN last.pairings}
PairedUnseeded == {last.pairings[k][2] : k \in DOMAIN last.pairings}

\* the seeded teams can be paired with the unseeded ones, each once, so
\* that no pair is of one group
Avoidable ==
    LET seeded == [k \in 1..4 |-> last.pairings[k][1]]
        unseeded == [k \in 1..4 |-> last.pairings[k][2]]
    IN  \E s \in ShuffleInputs :
            \A k \in 1..4 : GroupNameOf(seeded[k]) # GroupNameOf(unseeded[s[k]])

\* the four pairings cover the eight qualified teams, each once, every pair
\* of a seeded group winner and an unseeded team
FourPairings ==
    /\ Len(last.pairings) = 4
    /\ Len(last.qualified_team_ids) = 8
    /\ Cardinality(PairedSeeded) = 4 /\ Cardinality(PairedUnseeded) = 4
    /\ PairedSeeded \cap PairedUnseeded = {}
    /\ PairedSeeded \cup PairedUnseeded = Range(last.qualified_team_ids)
    /\ \A t \in PairedSeeded :
            /\ \E g \in DOMAIN group_letters : t = TopOfGroup(g, 1)
            /\ Cardinality({g \in DOMAIN group_letters :
                              StrongerWinner(TopOfGroup(g, 1), t)}) < 4
    /\ Cardinality({t \in PairedUnseeded :
                      \E g \in DOMAIN group_letters : t = TopOfGroup(g, 1)}) = 3

\* C33: advance_cl_knockout returns four pairings, each of one of the four
\* best group winners with one of the other three winners or the best
\* runner-up, that cover the eight qualified teams exactly once; for every
\* order of the shuffle two teams of one group are paired only when no
\* pairing without such a pair exists.
C33_SameGroupOnlyWhenForced ==
    Advanced => /\ FourPairings
                /\ SameGroupPair => ~Avoidable

\* the winner of a group was drawn against the runner-up of its own group
C33_SameGroupDrawn == Advanced /\ FourPairings /\ SameGroupPair


(***************************************************************************)
(* Results and team slots: a result recorded for a match, the penalty      *)
(* winner named with it, and the slots filled from the matches below.      *)
(***************************************************************************)
Recorded(match) == match.status \in {COMPLETED, CONFIRMED}

\* the call accepted last confirmed a match below row i
ChildConfirmedLast(i) ==
    /\ last.op = "confirm_result" /\ last.err = NoError
    /\ last.match \in DOMAIN matches /\ last.match # i
    /\ matches[last.match].bracket_position # Null
    /\ matches[i].bracket_position # Null
    /\ matches[last.match].bracket_position \div 2 = matches[i].bracket_position

\* C34 as stated: the penalty winner of a match is null or one of the two
\* teams the match holds now, also after its slots were filled from the
\* matches below.
C34_PenaltyWinnerIsOneOfTheTeams ==
    \A i \in DOMAIN matches :
        \/ matches[i].penalty_winner_id = Null
        \/ matches[i].penalty_winner_id \in
              {matches[i].home_team_id, matches[i].away_team_id}

\* a confirmed match holds two teams and a penalty winner that is neither
C34_PenaltyWinnerPlaysElsewhere ==
    \E i \in DOMAIN matches :
        /\ matches[i].status = CONFIRMED
        /\ matches[i].home_team_id # Null /\ matches[i].away_team_id # Null
        /\ matches[i].penalty_winner_id # Null
        /\ matches[i].penalty_winner_id \notin
              {matches[i].home_team_id, matches[i].away_team_id}

\* C36 as stated: once a match is COMPLETED or CONFIRMED its home and away
\* team never change; no confirmation of a match below it writes a team
\* into a match whose result is recorded.
C36_TeamsFixedOnceRecorded ==
    [][\A i \in DOMAIN matches :
          (Recorded(matches[i]) /\ i \in DOMAIN matches') =>
              /\ matches'[i].home_team_id = matches[i].home_team_id
              /\ matches'[i].away_team_id = matches[i].away_team_id]_vars

\* the confirmation of a match wrote its winner into a match whose result
\* was recorded before
C36_WrittenAfterResult ==
    \E i \in DOMAIN matches :
        /\ ChildConfirmedLast(i)
        /\ matches[i].submitted_by_id # Null
        /\ \/ matches[i].home_team_id = SingleLegWinner(matches[last.match])
           \/ matches[i].away_team_id = SingleLegWinner(matches[last.match])

\* C37 as stated: no match is COMPLETED or CONFIRMED while one of its team
\* slots is null; no result is recorded for a placeholder whose slots are
\* not both filled.
C37_NoResultWithEmptySlot ==
    \A i \in DOMAIN matches :
        Recorded(matches[i]) =>
            matches[i].home_team_id # Null /\ matches[i].away_team_id # Null

\* a result was submitted for a placeholder that waits for a team
C37_ResultForPlaceholder ==
    /\ last.op = "submit_result" /\ last.err = NoError
    /\ matches[last.match].bracket_position # Null
    /\ Null \in {matches[last.match].home_team_id, matches[last.match].away_team_id}
    /\ matches[last.match].status = COMPLETED


(***************************************************************************)
(* event_stream: GET /events/stream.  The generator of a response          *)
(* subscribes a queue of its own, then loops: it waits up to 30 s for a    *)
(* message and yields it, or yields a keepalive comment when none came.    *)
(* It leaves the loop only by the GeneratorExit that the server raises in  *)
(* it when the client has gone, and unsubscribes the queue on the way out. *)
(* Thread t serves the stream of client t on queue t.                      *)
(***************************************************************************)
Streaming(t) == threads[t].op = "event_stream"

\* q = event_bus.subscribe()
event_stream_open(t) ==
    /\ threads[t] = Idle
    /\ subscribers' = Append(subscribers, t)
    /\ queues' = [queues EXCEPT ![t] = <<>>]
    /\ threads' = [threads EXCEPT ![t] = Frame("get", "event_stream", t, <<>>)]
    /\ last' = Call("event_stream", t, NoError, <<>>)
    /\ UNCHANGED <<competition, matches, standings, scope, now, seasons, regionals, lock>>

\* msg = q.get(timeout=30); yield the message, or a keepalive on queue.Empty
event_stream_get(t) ==
    /\ Streaming(t)
    /\ IF queues[t] # <<>>
       THEN /\ queues' = [queues EXCEPT ![t] = Tail(@)]
            /\ last' = Call("yield", t, NoError, <<Head(queues[t])>>)
       ELSE /\ last' = Call("keepalive", t, NoError, <<>>)
            /\ UNCHANGED queues
    /\ UNCHANGED <<competition, matches, standings, subscribers, scope, now,
                   seasons, regionals, threads, lock>>

\* the client has gone: GeneratorExit, then finally: event_bus.unsubscribe(q)
event_stream_close(t) ==
    /\ Streaming(t)
    /\ subscribers' = SelectSeq(subscribers, LAMBDA s : s # t)
    /\ queues' = [queues EXCEPT ![t] = <<>>]
    /\ threads' = [threads EXCEPT ![t] = Idle]
    /\ last' = Call("close", t, NoError, <<>>)
    /\ UNCHANGED <<competition, matches, standings, scope, now, seasons, regionals, lock>>

InitStream ==
    /\ competition = Competition(REGIONAL, <<1, 2>>)
    /\ matches = <<>>
    /\ standings = {}
    /\ subscribers = <<>>
    /\ queues = [q \in Threads |-> <<>>]
    /\ scope = AllPositions
    /\ last = Call("init", Null, NoError, <<>>)
    /\ now = 0
    /\ InitElsewhere

NextStream ==
    \/ \E t \in Threads : event_stream_open(t)
    \/ \E t \in Threads : event_stream_get(t)
    \/ \E t \in Threads : event_stream_close(t)
    \/ publish_event("standings_updated", <<>>)

\* The server runs the loop of every open stream; whether events are
\* published, and whether a client comes or goes, is up to the callers.
FairStream == \A t \in Threads : WF_vars(event_stream_get(t))

SpecStream == InitStream /\ [][NextStream]_vars /\ FairStream

\* the bus has dropped the queue of a stream that is still open
DroppedStream(t) == Streaming(t) /\ t \notin Range(subscribers)

\* C35 as stated: after the bus drops a subscriber on overflow the event
\* stream of that subscriber eventually ends, so that the client reconnects;
\* a dropped subscriber does not stay connected for ever receiving nothing.
C35_DroppedStreamEnds ==
    \A t \in Threads : DroppedStream(t) ~> ~Streaming(t)

\* a dropped stream has handed out all it had and sends a keepalive
C35_DroppedStreamKeptAlive ==
    \E t \in Threads :
        /\ DroppedStream(t)
        /\ queues[t] = <<>>
        /\ last.op = "keepalive" /\ last.match = t


(***************************************************************************)
(* confirm_result raced: as above, with the reading of the match           *)
(* (match_service.py 55) and the checks made on what was read (57-70)      *)
(* apart from the commit of the new status (73-76).  Between the two the   *)
(* other thread may read the same row or commit its own change; the UPDATE *)
(* of the commit names the row by its id alone and writes the columns      *)
(* assigned, whatever the row holds by then.                               *)
(***************************************************************************)
\* db.session.get(Match, match_id) and the checks on the row read
confirm_load(t, match_id, penalty_winner_id) ==
    LET err == confirm_error(match_id, penalty_winner_id)
    IN  /\ threads[t] = Idle
        /\ IF err = NoError
           THEN /\ threads' = [threads EXCEPT ![t] =
                        ConfirmFrame("commit_status", match_id,
                                     [penalty_winner_id |-> penalty_winner_id])]
                /\ UNCHANGED last
           ELSE /\ last' = Call("confirm_result", match_id, err, <<>>)
                /\ UNCHANGED threads
        /\ UNCHANGED <<competition, matches, standings, subscribers, queues, scope, now,
                       seasons, regionals, lock>>

\* match.status = CONFIRMED; match.confirmed_by_id = user_id; commit
confirm_status_commit(t) ==
    /\ At(t, "commit_status")
    /\ matches' = ConfirmedRows(matches, threads[t].arg, AdminId,
                                threads[t].local.penalty_winner_id)
    /\ Goto(t, "recalculate_query", ConfirmLocal(<<>>, {}, {}, <<>>))
    /\ UNCHANGED <<competition, standings, subscribers, queues, scope, now, last,
                   seasons, regionals, lock>>

\* the legs of the quarter-final at position 4 with their results, the
\* other matches of the bracket as generated
TiePlayed(ms, first, second) ==
    [i \in DOMAIN ms |->
        IF ms[i].bracket_position = 4
        THEN LET result == IF ms[i].leg = 1 THEN first ELSE second
             IN  [ms[i] EXCEPT !.home_score = result[1], !.away_score = result[2],
                               !.status = COMPLETED, !.submitted_by_id = AdminId]
        ELSE ms[i]]

\* A league of two teams whose two matches have their results, a cup of
\* three teams whose leaf match has its result, and the knockout bracket of
\* the Champions League with the results of both legs of one quarter-final.
RaceWorlds ==
    { <<Competition(REGIONAL, <<1, 2>>),
        Submitted(RoundRobinMatches(Competition(REGIONAL, <<1, 2>>)), result),
        RoundRobinStandings(Competition(REGIONAL, <<1, 2>>), 0)>> : result \in PlayResults }
    \cup
    { <<Competition(CUP, <<1, 2, 3>>),
        Submitted(CupDrawMatches(Competition(CUP, <<1, 2, 3>>), <<1, 2, 3>>), result),
        {}>> : result \in PlayResults }
    \cup
    { <<Competition(NATIONAL, <<1, 2, 3, 4, 5, 6, 7, 8>>),
        TiePlayed(CLKnockoutMatches(Competition(NATIONAL, <<1, 2, 3, 4, 5, 6, 7, 8>>),
                                    CLTeamPairs), first, second),
        {}>> : first \in PlayResults, second \in PlayResults }

InitRace ==
    /\ \E world \in RaceWorlds :
          /\ competition = world[1]
          /\ matches = world[2]
          /\ standings = world[3]
    /\ subscribers = <<1>>
    /\ queues = [q \in QueueIds |-> <<>>]
    /\ scope = AllPositions
    /\ last = Call("init", Null, NoError, <<>>)
    /\ now = 0
    /\ InitElsewhere

\* the matches the administrators confirm: those with a result
RaceInputs == {m \in DOMAIN matches : matches[m].submitted_by_id # Null}

\* the placeholders of a cup that are given a result before their time
EarlyInputs ==
    {m \in DOMAIN matches : competition.type = CUP /\ matches[m].status = SCHEDULED}

NextRace ==
    \/ \E t \in Threads, match_id \in RaceInputs :
            \E penalty_winner_id \in PenaltyWinnerInputs(match_id) :
                confirm_load(t, match_id, penalty_winner_id)
    \/ \E t \in Threads : confirm_status_commit(t)
    \/ \E t \in Threads : recalculate_query(t)
    \/ \E t \in Threads : recalculate_rows(t)
    \/ \E t \in Threads : recalculate_commit(t)
    \/ \E t \in Threads : publish_confirmed(t)
    \/ \E t \in Threads : advance_commit(t)
    \/ \E t \in Threads : publish_bracket(t)
    \/ \E t \in Threads : publish_complete(t)
    \/ \E match_id \in EarlyInputs : submit_result(match_id, 0, 0, AdminId)

SpecRace == InitRace /\ [][NextRace]_vars


\* the events of a type that the subscriber was sent about match m, or
\* about the competition when m is Null
Sent(type, m) ==
    {k \in DOMAIN queues[1] :
        /\ queues[1][k].type = type
        /\ m # Null => queues[1][k].data.match_id = m}

Quiet == \A t \in Threads : threads[t] = Idle

\* C38 as stated: of all the confirm_result calls made for a match, one
\* after the other or at once, at most one succeeds, so that match_confirmed
\* is published at most once for the match.
C38_ConfirmedAtMostOnce ==
    \A m \in DOMAIN matches : Cardinality(Sent("match_confirmed", m)) <= 1

\* two calls for one match are past its checks at once
C38_BothPastTheChecks ==
    /\ \A t \in Threads : threads[t].op = "confirm_result"
    /\ threads[1].arg = threads[2].arg
    /\ \A t \in Threads : threads[t].pc # "commit_status"

\* C39 as stated: competition_complete is published exactly once when all
\* the LEAGUE and GROUP matches of a competition end CONFIRMED, also when
\* the last confirmations are made at once: never zero times, never twice.
C39_CompleteExactlyOnce ==
    /\ Cardinality(Sent("competition_complete", Null)) <= 1
    /\ (/\ Quiet
        /\ matches # <<>>
        /\ \A i \in DOMAIN matches : matches[i].stage = LEAGUE
        /\ Remaining(matches, competition.id) = 0)
       => Cardinality(Sent("competition_complete", Null)) = 1

\* the league is played out and its completion was announced twice
C39_AnnouncedTwice ==
    /\ Quiet
    /\ Remaining(matches, competition.id) = 0
    /\ Cardinality(Sent("competition_complete", Null)) = 2

\* the two legs of the tie at position p were confirmed at once: both
\* confirmations were announced before either call filled the bracket
Overlapped(p) ==
    \E i, j \in DOMAIN queues[1] :
        /\ i < j
        /\ queues[1][i].type = "match_confirmed"
        /\ queues[1][j].type = "match_confirmed"
        /\ queues[1][i].data.match_id # queues[1][j].data.match_id
        /\ \A k \in 1..j : queues[1][k].type # "bracket_updated"
        /\ \A k \in {i, j} : matches[queues[1][k].data.match_id].bracket_position = p

\* C40: when the two legs of a decided two-legged tie are confirmed at
\* once, in whatever order the steps of the two calls fall the slot of the
\* parent holds the winner of the tie once both calls have returned: the
\* calls never both skip the advancement.
C40_WinnerAdvancesFromRacedLegs ==
    \A p \in TiePositions(matches) :
        (/\ Quiet
         /\ BothConfirmed(matches, p)
         /\ two_legged_winner(TieLeg(matches, p, 1), TieLeg(matches, p, 2))[1])
        => ParentHolds(matches, p,
                       two_legged_winner(TieLeg(matches, p, 1), TieLeg(matches, p, 2))[2])

\* both legs of a decided tie were confirmed at once, both calls have
\* returned, and the parent holds the winner
C40_Witness ==
    \E p \in TiePositions(matches) :
        /\ Quiet
        /\ Overlapped(p)
        /\ BothConfirmed(matches, p)
        /\ two_legged_winner(TieLeg(matches, p, 1), TieLeg(matches, p, 2))[1]
        /\ ParentHolds(matches, p,
                       two_legged_winner(TieLeg(matches, p, 1), TieLeg(matches, p, 2))[2])

==============================================================================
